---- MODULE Spec2Model ----
(***************************************************************************)
(* Dinner Workflow Orchestrator of korjavin/whatsfordinner.                *)
(*                                                                         *)
(* The durable store (BadgerDB, JSON values) is the variable store: one    *)
(* map per key namespace ("vote:<chan>:<poll>", "channel:<chan>",           *)
(* "poll_mapping:<poll>", "dinner:<chan>:<unix>").  A pointer field of a    *)
(* stored struct (CurrentVote, CurrentDinner) is a sequence of length 0    *)
(* (nil) or 1: json.Marshal writes a deep copy of what it points to.       *)
(* time.Time is a number of minutes; NoTime is the zero time.Time.         *)
(* Fields that no modelled code reads (MessageID, FridgeID, LastActivity,  *)
(* Cuisines) are left out of the records.                                  *)
(*                                                                         *)
(* Several specifications share the state and the operators:               *)
(*   SpecSvc    single calls of poll.Service and dinner.Service            *)
(*   Spec       the update loop beside the starter and the closer          *)
(*   SpecBallot the update loop beside the closer                          *)
(*   SpecWatch  the watchdog, ticking every minute after a vote has ended  *)
(*   SpecStarter the update loop beside the starter                         *)
(*   SpecRate   single calls of dinner.Service, ratings included           *)
(*   SpecSession two goroutines calling the chat state manager             *)
(*   SpecTenants service calls for two chats beside the closer and starter *)
(*   SpecFaults the starter with store operations that fail               *)
(*   SpecStop   the three scheduler tasks and the stop signal              *)
(*   SpecReady  dinners and their "Dinner is ready!" buttons              *)
(*   SpecRace   calls of poll.Service on one vote that overlap            *)
(*   SpecResolve lookups of the channel of a poll id                       *)
(***************************************************************************)
EXTENDS Integers, Sequences, FiniteSets, TLC

\* ------------------------------------------------------------ bounds
\* service calls made in one run of SpecSvc
MaxOps == 4
\* polls Telegram creates in one run of Spec
MaxPolls == 2
\* ticks of the scheduler's tickers in one run of Spec
MaxTicks == 2
\* ticks of the closer's ticker in one run of SpecBallot
MaxCloserTicks == 1
\* ticks of the scheduler's tickers in one run of SpecTenants
MaxTenantTicks == 6
\* minutes in which the tickers fire in one run of SpecStop
MaxStopMinutes == 2
\* calls of poll.Service begun in one run of SpecRace
MaxRaceCalls == 3
\* ticks of the starter's ticker in one run of SpecFaults
MaxFaultTicks == 2
\* minutes that pass in one run of SpecSession
MaxSessionMinutes == 12
\* ticks of the starter's ticker in one run of SpecStarter
MaxStarterTicks == 2
\* updates (commands, poll answers, button presses) the bot receives in one run
MaxUpdates == 4
\* largest member count handed to CheckVoteThreshold
MaxMembers == 3

\* ------------------------------------------------- program constants
StartHour == 15
EndHour == 21
WindowMinutes == 5
GracePeriod == 15
\* the minutes after which GetState and GetData drop a chat's state
IdleWindow == 10
DefaultMemberCount == 3

\* ------------------------------------------------------------ inputs
Chats == {1}
\* the chat the service calls of SpecSvc are made for
SvcChats == {1}
Users == {"u1", "u2", "u3"}
Dishes == {"A", "B", "C"}
PollIds == 1..MaxPolls
\* the poll identifiers the service calls of SpecSvc are made with
SvcPolls == {1, 2}
\* option lists handed to CreateVote
OptionInputs == {<<>>, <<"A", "B">>}
\* thresholdPercent as a fraction <<numerator, denominator>>
Fractions == {<<1, 2>>, <<2, 3>>, <<1, 1>>}
NoTime == 0

VARIABLES
  store,               \* the durable key-value store
  now,                 \* the wall clock, in minutes
  boot,                \* the time the process started
  ret,                 \* SpecSvc: what the last service call returned
  polls,               \* polls Telegram has created so far; the next poll ID is polls + 1
  buttons,             \* <<chat, poll>> of the "I'll cook!" buttons posted
  pollChannelMap,      \* main's global map from poll ID to channel ID
  bot,                 \* the update loop: the handler in progress and its locals
  starter,             \* runDailyDinnerScheduler: position and channels left to scan
  closer,              \* runDinnerTimeoutChecker: position, locals, channels left
  watchdog,            \* runCookVolunteerTimeoutChecker: channels left to scan
  volunteerWaitStart,  \* the watchdog's map from poll ID to when it began waiting
  pending,             \* the scheduler tasks that have not handled this minute's tick
  updates,             \* the number of updates the bot has received
  states,              \* state.Manager: the map from chat ID to ChatState
  mu,                  \* state.Manager: the read locks held on the RWMutex
  callers,             \* the goroutines calling the manager: position and locals
  stopChan,            \* the scheduler's stop channel: "open" or "closed"
  sent,                \* what the closer announced when it last closed a poll
  txn                  \* the store calls in progress: position and the value read

svcVars == <<store, now, boot, ret>>
sessVars == <<states, mu, callers>>
extVars == <<sent, txn>>
progVars == <<polls, buttons, pollChannelMap, bot, starter, closer, watchdog,
              volunteerWaitStart, pending, updates, sessVars, stopChan, extVars>>
vars == <<store, now, boot, ret, polls, buttons, pollChannelMap, bot, starter,
          closer, watchdog, volunteerWaitStart, pending, updates, sessVars, stopChan, extVars>>

\* ------------------------------------------------------------ helpers
Range(f) == {f[x] : x \in DOMAIN f}

\* m[k] = v of a Go map, and Store.Set of one key
Put(f, k, v) == [x \in (DOMAIN f) \cup {k} |-> IF x = k THEN v ELSE f[x]]

\* mutant of CeilMul: the product rounded down
FloorMul(n, pct) == (n * pct[1]) \div pct[2]

\* int(math.Ceil(float64(n) * pct)) for pct = num/den.  The float64 product
\* agrees with the exact ceiling for every fraction of Fractions and every
\* n up to 10^6 (2.0/3.0 included).
CeilMul(n, pct) == (n * pct[1] + pct[2] - 1) \div pct[2]

EmptyStore == [vote |-> <<>>, channel |-> <<>>, pollMapping |-> <<>>, dinner |-> <<>>]

NewVoteState(p, opts, t) ==
  [PollID |-> p, Options |-> opts, Votes |-> <<>>, StartedAt |-> t,
   EndedAt |-> NoTime, WinningDish |-> "", CookVolunteers |-> <<>>,
   SelectedCook |-> ""]

NewChannelState(c) ==
  [ChannelID |-> c, CurrentDinner |-> <<>>, CurrentVote |-> <<>>, MemberCount |-> 0]

\* ------------------------------------------------------- poll.Service
\* Every operation takes the store and returns the store it leaves and its
\* error ("" is nil).

CreateVote(s, c, p, opts, t) ==
  LET vote == NewVoteState(p, opts, t)
      s1 == [s EXCEPT !.vote = Put(@, <<c, p>>, vote),
                      !.pollMapping = Put(@, p, c)]
      cs == IF c \in DOMAIN s1.channel THEN s1.channel[c] ELSE NewChannelState(c)
  IN [store |-> [s1 EXCEPT !.channel = Put(@, c, [cs EXCEPT !.CurrentVote = <<vote>>])],
      err |-> ""]

\* CreateVote when store.Set of the poll_mapping key fails: the error is
\* logged and the call goes on
CreateVoteUnmapped(s, c, p, opts, t) ==
  LET vote == NewVoteState(p, opts, t)
      s1 == [s EXCEPT !.vote = Put(@, <<c, p>>, vote)]
      cs == IF c \in DOMAIN s1.channel THEN s1.channel[c] ELSE NewChannelState(c)
  IN [store |-> [s1 EXCEPT !.channel = Put(@, c, [cs EXCEPT !.CurrentVote = <<vote>>])],
      err |-> ""]

\* mutant of RecordVote: a user's first ballot is kept
RecordVote_KeepFirst(s, c, p, u, o) ==
  IF <<c, p>> \notin DOMAIN s.vote THEN [store |-> s, err |-> "key not found"]
  ELSE LET vote == s.vote[<<c, p>>] IN
    IF o \notin Range(vote.Options) THEN [store |-> s, err |-> "invalid option"]
    ELSE IF u \in DOMAIN vote.Votes THEN [store |-> s, err |-> ""]
    ELSE [store |-> [s EXCEPT !.vote[<<c, p>>].Votes = Put(@, u, o)], err |-> ""]

\* mutant of RecordVote: the option is not looked up in the option list
RecordVote_Unchecked(s, c, p, u, o) ==
  IF <<c, p>> \notin DOMAIN s.vote THEN [store |-> s, err |-> "key not found"]
  ELSE [store |-> [s EXCEPT !.vote[<<c, p>>].Votes = Put(@, u, o)], err |-> ""]

RecordVote(s, c, p, u, o) ==
  IF <<c, p>> \notin DOMAIN s.vote THEN [store |-> s, err |-> "key not found"]
  ELSE LET vote == s.vote[<<c, p>>] IN
    IF o \notin Range(vote.Options) THEN [store |-> s, err |-> "invalid option"]
    ELSE [store |-> [s EXCEPT !.vote[<<c, p>>].Votes = Put(@, u, o)], err |-> ""]

\* results of GetVoteResults: a count for every option, and for every ballot
Results(vote) ==
  [o \in Range(vote.Options) \cup Range(vote.Votes) |->
     Cardinality({u \in DOMAIN vote.Votes : vote.Votes[u] = o})]

\* mutant of Winners: the loop compares with >= and so names a winner
\* even when no count is > 0
Winners_AllowZero(results) ==
  {o \in DOMAIN results : \A q \in DOMAIN results : results[q] <= results[o]}

\* The winner loop ranges over a Go map: the order is unspecified, so the
\* winner is any option whose count is the greatest, "" when no count is > 0.
Winners(results) ==
  IF \A o \in DOMAIN results : results[o] = 0 THEN {""}
  ELSE {o \in DOMAIN results : \A q \in DOMAIN results : results[q] <= results[o]}

GetVoteResults(s, c, p) ==
  IF <<c, p>> \notin DOMAIN s.vote
  THEN [err |-> "key not found", results |-> <<>>, winners |-> {""}]
  ELSE LET r == Results(s.vote[<<c, p>>])
       IN [err |-> "", results |-> r, winners |-> Winners(r)]

\* mutant of EndVote: currentVote is cleared whatever poll it holds
EndVote_ClearAny(s, c, p, w, t) ==
  IF <<c, p>> \notin DOMAIN s.vote THEN [store |-> s, err |-> "key not found"]
  ELSE LET s1 == [s EXCEPT !.vote[<<c, p>>].EndedAt = t,
                           !.vote[<<c, p>>].WinningDish = w] IN
    IF c \notin DOMAIN s1.channel THEN [store |-> s1, err |-> "key not found"]
    ELSE [store |-> [s1 EXCEPT !.channel[c].CurrentVote = <<>>], err |-> ""]

\* mutant of EndVote: CurrentVote is cleared in every channel that shows the
\* poll ID
EndVote_AllChannels(s, c, p, w, t) ==
  IF <<c, p>> \notin DOMAIN s.vote THEN [store |-> s, err |-> "key not found"]
  ELSE LET s1 == [s EXCEPT !.vote[<<c, p>>].EndedAt = t,
                           !.vote[<<c, p>>].WinningDish = w] IN
    IF c \notin DOMAIN s1.channel THEN [store |-> s1, err |-> "key not found"]
    ELSE [store |-> [s1 EXCEPT !.channel =
                       [x \in DOMAIN @ |->
                          IF @[x].CurrentVote # <<>> /\ @[x].CurrentVote[1].PollID = p
                          THEN [@[x] EXCEPT !.CurrentVote = <<>>] ELSE @[x]]],
          err |-> ""]

EndVote(s, c, p, w, t) ==
  IF <<c, p>> \notin DOMAIN s.vote THEN [store |-> s, err |-> "key not found"]
  ELSE LET s1 == [s EXCEPT !.vote[<<c, p>>].EndedAt = t,
                           !.vote[<<c, p>>].WinningDish = w] IN
    IF c \notin DOMAIN s1.channel THEN [store |-> s1, err |-> "key not found"]
    ELSE LET cs == s1.channel[c] IN
      IF cs.CurrentVote # <<>> /\ cs.CurrentVote[1].PollID = p
      THEN [store |-> [s1 EXCEPT !.channel[c].CurrentVote = <<>>], err |-> ""]
      ELSE [store |-> s1, err |-> ""]

\* vote.Votes[userID] of a Go map: "" for a user with no ballot
BallotOf(vote, u) == IF u \in DOMAIN vote.Votes THEN vote.Votes[u] ELSE ""

\* mutant of AddCookVolunteer: the user is appended without the
\* already-volunteered loop
AddCookVolunteer_Append(s, c, p, u) ==
  IF <<c, p>> \notin DOMAIN s.vote THEN [store |-> s, err |-> "key not found"]
  ELSE LET vote == s.vote[<<c, p>>] IN
    IF BallotOf(vote, u) # vote.WinningDish /\ Cardinality(DOMAIN vote.Votes) > 0
    THEN [store |-> s, err |-> "user did not vote for the winning dish"]
    ELSE [store |-> [s EXCEPT !.vote[<<c, p>>].CookVolunteers = Append(@, u)],
          err |-> ""]

AddCookVolunteer(s, c, p, u) ==
  IF <<c, p>> \notin DOMAIN s.vote THEN [store |-> s, err |-> "key not found"]
  ELSE LET vote == s.vote[<<c, p>>] IN
    IF BallotOf(vote, u) # vote.WinningDish /\ Cardinality(DOMAIN vote.Votes) > 0
    THEN [store |-> s, err |-> "user did not vote for the winning dish"]
    ELSE IF u \in Range(vote.CookVolunteers) THEN [store |-> s, err |-> ""]
    ELSE [store |-> [s EXCEPT !.vote[<<c, p>>].CookVolunteers = Append(@, u)],
          err |-> ""]

\* mutant of SelectCook: the volunteer loop is skipped
SelectCook_Unchecked(s, c, p, u) ==
  IF <<c, p>> \notin DOMAIN s.vote THEN [store |-> s, err |-> "key not found"]
  ELSE [store |-> [s EXCEPT !.vote[<<c, p>>].SelectedCook = u], err |-> ""]

SelectCook(s, c, p, u) ==
  IF <<c, p>> \notin DOMAIN s.vote THEN [store |-> s, err |-> "key not found"]
  ELSE IF u \notin Range(s.vote[<<c, p>>].CookVolunteers)
  THEN [store |-> s, err |-> "user is not a volunteer"]
  ELSE [store |-> [s EXCEPT !.vote[<<c, p>>].SelectedCook = u], err |-> ""]

\* mutant of CheckVoteThreshold: any ballot reaches the threshold
CheckVoteThreshold_AnyBallot(s, c, p, members, pct) ==
  IF <<c, p>> \notin DOMAIN s.vote
  THEN [err |-> "key not found", reached |-> FALSE, winners |-> {""}]
  ELSE LET vote == s.vote[<<c, p>>] IN
    IF vote.EndedAt # NoTime THEN [err |-> "", reached |-> FALSE, winners |-> {""}]
    ELSE IF Cardinality(DOMAIN vote.Votes) >= 1
    THEN [err |-> "", reached |-> TRUE, winners |-> Winners(Results(vote))]
    ELSE [err |-> "", reached |-> FALSE, winners |-> {""}]

CheckVoteThreshold(s, c, p, members, pct) ==
  IF <<c, p>> \notin DOMAIN s.vote
  THEN [err |-> "key not found", reached |-> FALSE, winners |-> {""}]
  ELSE LET vote == s.vote[<<c, p>>] IN
    IF vote.EndedAt # NoTime THEN [err |-> "", reached |-> FALSE, winners |-> {""}]
    ELSE IF Cardinality(DOMAIN vote.Votes) >= CeilMul(members, pct)
    THEN [err |-> "", reached |-> TRUE, winners |-> GetVoteResults(s, c, p).winners]
    ELSE [err |-> "", reached |-> FALSE, winners |-> {""}]

\* mutant of AddOptionToVote: the already-exists loop is skipped
AddOptionToVote_NoDupCheck(s, c, p, o) ==
  IF <<c, p>> \notin DOMAIN s.vote THEN [store |-> s, err |-> "failed to get vote"]
  ELSE LET vote == s.vote[<<c, p>>] IN
    IF vote.EndedAt # NoTime THEN [store |-> s, err |-> "vote has already ended"]
    ELSE [store |-> [s EXCEPT !.vote[<<c, p>>].Options = Append(@, o)], err |-> ""]

AddOptionToVote(s, c, p, o) ==
  IF <<c, p>> \notin DOMAIN s.vote THEN [store |-> s, err |-> "failed to get vote"]
  ELSE LET vote == s.vote[<<c, p>>] IN
    IF vote.EndedAt # NoTime THEN [store |-> s, err |-> "vote has already ended"]
    ELSE IF o \in Range(vote.Options) THEN [store |-> s, err |-> "option already exists"]
    ELSE [store |-> [s EXCEPT !.vote[<<c, p>>].Options = Append(@, o)], err |-> ""]

\* ----------------------------------------------------- dinner.Service
NewDinner(c, dish, cook, t) ==
  [ID |-> <<c, t>>, ChannelID |-> c, Dish |-> dish, Cook |-> cook,
   StartedAt |-> t, FinishedAt |-> NoTime, Ratings |-> <<>>,
   AverageRating |-> <<0, 1>>]

CreateDinner(s, c, dish, cook, t) ==
  LET dinner == NewDinner(c, dish, cook, t)
      s1 == [s EXCEPT !.dinner = Put(@, dinner.ID, dinner)]
      cs == IF c \in DOMAIN s1.channel THEN s1.channel[c] ELSE NewChannelState(c)
  IN [store |-> [s1 EXCEPT !.channel = Put(@, c, [cs EXCEPT !.CurrentDinner = <<dinner>>])],
      err |-> ""]

\* FinishDinner without the write that clears CurrentDinner
FinishDinner_KeepCurrent(s, c, t) ==
  IF c \notin DOMAIN s.channel THEN [store |-> s, err |-> "key not found"]
  ELSE IF s.channel[c].CurrentDinner = <<>> THEN [store |-> s, err |-> "no active dinner"]
  ELSE LET dinner == [s.channel[c].CurrentDinner[1] EXCEPT !.FinishedAt = t]
       IN [store |-> [s EXCEPT !.dinner = Put(@, dinner.ID, dinner)], err |-> ""]

FinishDinner(s, c, t) ==
  IF c \notin DOMAIN s.channel THEN [store |-> s, err |-> "key not found"]
  ELSE IF s.channel[c].CurrentDinner = <<>> THEN [store |-> s, err |-> "no active dinner"]
  ELSE LET dinner == [s.channel[c].CurrentDinner[1] EXCEPT !.FinishedAt = t]
       IN [store |-> [s EXCEPT !.dinner = Put(@, dinner.ID, dinner),
                               !.channel[c].CurrentDinner = <<>>],
           err |-> ""]

RECURSIVE Gcd(_, _)
Gcd(a, b) == IF b = 0 THEN a ELSE Gcd(b, a % b)

\* the loop "for _, r := range dinner.Ratings { sum += r }"
RECURSIVE SumRatings(_)
SumRatings(ratings) ==
  IF DOMAIN ratings = {} THEN 0
  ELSE LET u == CHOOSE x \in DOMAIN ratings : TRUE IN
         ratings[u] + SumRatings([x \in DOMAIN ratings \ {u} |-> ratings[x]])

\* float64(sum) / float64(n), n > 0 and sum >= 0: the quotient as the fraction
\* <<numerator, denominator>> in lowest terms (the float64 is the double
\* nearest to it; halves and whole numbers are exact)
Quotient(sum, n) == LET g == Gcd(sum, n) IN <<sum \div g, n \div g>>

\* mutant of RateDinner: the average is computed before the rating is written
RateDinner_StaleAverage(s, d, u, rating) ==
  IF d \notin DOMAIN s.dinner THEN [store |-> s, err |-> "key not found"]
  ELSE LET old == s.dinner[d].Ratings
           ratings == Put(old, u, rating)
           avg == IF DOMAIN old = {} THEN <<0, 1>>
                  ELSE Quotient(SumRatings(old), Cardinality(DOMAIN old))
       IN [store |-> [s EXCEPT !.dinner[d].Ratings = ratings,
                               !.dinner[d].AverageRating = avg],
           err |-> ""]

RateDinner(s, d, u, rating) ==
  IF d \notin DOMAIN s.dinner THEN [store |-> s, err |-> "key not found"]
  ELSE LET ratings == Put(s.dinner[d].Ratings, u, rating)
           avg == Quotient(SumRatings(ratings), Cardinality(DOMAIN ratings))
       IN [store |-> [s EXCEPT !.dinner[d].Ratings = ratings,
                               !.dinner[d].AverageRating = avg],
           err |-> ""]

\* ------------------------------------------------------ clock helpers
Hour(t) == (t \div 60) % 24
Minute(t) == t % 60
\* time.Now().Truncate(24 * time.Hour)
Today(t) == t - (t % 1440)
InStartWindow(t) == Hour(t) = StartHour /\ Minute(t) < WindowMinutes
InEndWindow(t) == Hour(t) = EndHour /\ Minute(t) < WindowMinutes

\* -------------------------------------------------- scheduler helpers
\* store.List("channel:"): the channel keys in ascending order
RECURSIVE SortedSeq(_)
SortedSeq(S) ==
  IF S = {} THEN <<>>
  ELSE LET m == CHOOSE x \in S : \A y \in S : x <= y IN <<m>> \o SortedSeq(S \ {m})

ListChannels(s) == SortedSeq(DOMAIN s.channel)

\* mutant of hasDinnerStartedToday: the two pointers and no look at the
\* dinner and vote keys
hasDinnerStartedToday_PointersOnly(s, cs, t) ==
  \/ cs.CurrentDinner # <<>>
  \/ cs.CurrentVote # <<>>

hasDinnerStartedToday(s, cs, t) ==
  \/ cs.CurrentDinner # <<>>
  \/ cs.CurrentVote # <<>>
  \/ \E k \in DOMAIN s.dinner : k[1] = cs.ChannelID /\ s.dinner[k].StartedAt > Today(t)
  \/ \E k \in DOMAIN s.vote : k[1] = cs.ChannelID /\ s.vote[k].StartedAt > Today(t)

hasUnfinishedDinnerWorkflow(cs) ==
  \/ cs.CurrentDinner # <<>> /\ cs.CurrentDinner[1].FinishedAt = NoTime
  \/ cs.CurrentVote # <<>> /\ cs.CurrentVote[1].EndedAt = NoTime

\* the watchdog's test for "a vote has ended but nobody volunteered"
AwaitsVolunteer(cs) ==
  /\ cs.CurrentVote # <<>>
  /\ cs.CurrentVote[1].EndedAt # NoTime
  /\ cs.CurrentVote[1].WinningDish # ""
  /\ Len(cs.CurrentVote[1].CookVolunteers) = 0

\* delete(m, k) of a Go map
Delete(f, k) == [x \in (DOMAIN f) \ {k} |-> f[x]]

\* The loop of FindChannelByPollID over the channel keys: a channel whose
\* CurrentVote carries the poll id is returned as it is; a channel with a
\* vote key of that poll id is returned after the poll_mapping key is set.
RECURSIVE ScanChannels(_, _, _)
ScanChannels(s, p, chans) ==
  IF chans = <<>> THEN [store |-> s, err |-> "channel not found", channel |-> 0]
  ELSE LET cs == s.channel[Head(chans)] IN
    IF cs.CurrentVote # <<>> /\ cs.CurrentVote[1].PollID = p
    THEN [store |-> s, err |-> "", channel |-> cs.ChannelID]
    ELSE IF \E k \in DOMAIN s.vote : k[1] = cs.ChannelID /\ s.vote[k].PollID = p
    THEN [store |-> [s EXCEPT !.pollMapping = Put(@, p, cs.ChannelID)],
          err |-> "", channel |-> cs.ChannelID]
    ELSE ScanChannels(s, p, Tail(chans))

\* mutant of FindChannelByPollID: the poll_mapping key and no scan
FindChannelByPollID_MappingOnly(s, p) ==
  IF p \in DOMAIN s.pollMapping
  THEN [store |-> s, err |-> "", channel |-> s.pollMapping[p]]
  ELSE [store |-> s, err |-> "channel not found", channel |-> 0]

\* FindChannelByPollID: the poll_mapping key, else the scan of the channels
FindChannelByPollID(s, p) ==
  IF p \in DOMAIN s.pollMapping
  THEN [store |-> s, err |-> "", channel |-> s.pollMapping[p]]
  ELSE ScanChannels(s, p, ListChannels(s))

\* The option lists OpenAI suggests for a poll
SuggestedOptions == {<<"A", "B">>}
\* what GetChatMemberCount answers: the members of the chat, the bot included
MemberCounts == {2, MaxMembers + 1}

\* What startDinnerWorkflow (and the /dinner command) leaves behind: nothing
\* when the fridge, OpenAI or CreatePoll fails, else a new Telegram poll and
\* the vote CreateVote stores for it.
StartOutcomes(s, c, n, t) ==
  {[store |-> s, polls |-> n]} \cup
  (IF n < MaxPolls
   THEN {[store |-> CreateVote(s, c, n + 1, opts, t).store, polls |-> n + 1] :
           opts \in SuggestedOptions}
   ELSE {})

\* restartDinnerWorkflow up to its call of startDinnerWorkflow
ClearEndedVote(s, c) ==
  IF c \in DOMAIN s.channel /\ s.channel[c].CurrentVote # <<>>
     /\ s.channel[c].CurrentVote[1].EndedAt # NoTime
  THEN [store |-> [s EXCEPT !.channel[c].CurrentVote = <<>>], cleared |-> TRUE]
  ELSE [store |-> s, cleared |-> FALSE]

Tasks == {"starter", "closer", "watchdog"}
\* the process starts in the last but one minute of the closing window
BootTime == EndHour * 60 + WindowMinutes - 2

\* the first minute from t on in which a window is open: outside the
\* windows the starter's and the closer's ticks do nothing
RECURSIVE NextWindowMinute(_)
NextWindowMinute(t) ==
  IF InStartWindow(t) \/ InEndWindow(t) THEN t
  ELSE NextWindowMinute(t - Minute(t) + 60)

\* the number of window minutes in (a, b]
RECURSIVE WindowMinutesBetween(_, _)
WindowMinutesBetween(a, b) ==
  IF NextWindowMinute(a + 1) > b THEN 0
  ELSE 1 + WindowMinutesBetween(NextWindowMinute(a + 1), b)

IdleBot == [pc |-> "idle", c |-> 0, p |-> 0, u |-> "", cs |-> <<>>, m |-> 0, w |-> ""]
IdleTask == [pc |-> "idle", queue |-> <<>>, c |-> 0, p |-> 0, w |-> "", n |-> 0,
             dinner |-> FALSE]

\* the goroutines that call the state manager
Callers == {1, 2}
IdleCaller == [pc |-> "idle", op |-> "", c |-> 0, key |-> "", out |-> "", ok |-> FALSE,
               evicted |-> FALSE, held |-> 0]
\* state.New(): no chat has a state, the mutex is free
NoSession ==
  /\ states = <<>>
  /\ mu = 0
  /\ callers = [i \in Callers |-> IdleCaller]

\* the goroutines that call the store: the update loop and the closer
Parties == {"bot", "closer"}
IdleCall == [pc |-> "idle", op |-> "", u |-> "", o |-> "", vote |-> <<>>, err |-> ""]
\* nothing was announced, no store call is in progress
NoCalls ==
  /\ sent = <<>>
  /\ txn = [i \in Parties |-> IdleCall]

\* --------------------------------------------------------------- Init
Init ==
  /\ store = EmptyStore
  /\ boot = BootTime
  /\ now = boot
  /\ ret = [op |-> "none", err |-> ""]
  /\ polls = 0
  /\ buttons = {}
  /\ pollChannelMap = <<>>
  /\ bot = IdleBot
  /\ starter = IdleTask
  /\ closer = IdleTask
  /\ watchdog = IdleTask
  /\ volunteerWaitStart = <<>>
  /\ pending = {}
  /\ updates = 0
  /\ NoSession
  /\ stopChan = "open"
  /\ NoCalls

\* ------------------------------------------- service calls (SpecSvc)
\* One call of a poll.Service or dinner.Service method with arguments drawn
\* from the input sets; ret is what the call returned.  A call takes a minute.
CanCall == now - boot < MaxOps

Returned(op, r) ==
  /\ store' = r.store
  /\ ret' = [op |-> op, err |-> r.err]
  /\ now' = now + 1
  /\ UNCHANGED <<boot, progVars>>

SvcCreateVote(c, p, opts) ==
  /\ CanCall
  /\ Returned("CreateVote", CreateVote(store, c, p, opts, now))

SvcRecordVote(c, p, u, o) ==
  /\ CanCall
  /\ Returned("RecordVote", RecordVote(store, c, p, u, o))

SvcEndVote(c, p, w) ==
  /\ CanCall
  /\ Returned("EndVote", EndVote(store, c, p, w, now))

SvcAddCookVolunteer(c, p, u) ==
  /\ CanCall
  /\ LET r == AddCookVolunteer(store, c, p, u) IN
       /\ store' = r.store
       /\ ret' = [op |-> "AddCookVolunteer", err |-> r.err, user |-> u]
  /\ now' = now + 1
  /\ UNCHANGED <<boot, progVars>>

SvcSelectCook(c, p, u) ==
  /\ CanCall
  /\ Returned("SelectCook", SelectCook(store, c, p, u))

SvcAddOptionToVote(c, p, o) ==
  /\ CanCall
  /\ Returned("AddOptionToVote", AddOptionToVote(store, c, p, o))

SvcCreateDinner(c, dish, cook) ==
  /\ CanCall
  /\ Returned("CreateDinner", CreateDinner(store, c, dish, cook, now))

SvcFinishDinner(c) ==
  /\ CanCall
  /\ Returned("FinishDinner", FinishDinner(store, c, now))

SvcGetVoteResults(c, p) ==
  /\ CanCall
  /\ LET r == GetVoteResults(store, c, p) IN
       \E w \in r.winners :
         ret' = [op |-> "GetVoteResults", err |-> r.err,
                 results |-> r.results, winner |-> w]
  /\ now' = now + 1
  /\ UNCHANGED <<store, boot, progVars>>

SvcCheckVoteThreshold(c, p, members, pct) ==
  /\ CanCall
  /\ LET r == CheckVoteThreshold(store, c, p, members, pct) IN
       \E w \in r.winners :
         ret' = [op |-> "CheckVoteThreshold", err |-> r.err,
                 reached |-> r.reached, winner |-> w]
  /\ now' = now + 1
  /\ UNCHANGED <<store, boot, progVars>>

NextSvc ==
  \/ \E c \in SvcChats, p \in SvcPolls, opts \in OptionInputs : SvcCreateVote(c, p, opts)
  \/ \E c \in SvcChats, p \in SvcPolls, u \in Users, o \in Dishes : SvcRecordVote(c, p, u, o)
  \/ \E c \in SvcChats, p \in SvcPolls, w \in Dishes \cup {""} : SvcEndVote(c, p, w)
  \/ \E c \in SvcChats, p \in SvcPolls, u \in Users : SvcAddCookVolunteer(c, p, u)
  \/ \E c \in SvcChats, p \in SvcPolls, u \in Users : SvcSelectCook(c, p, u)
  \/ \E c \in SvcChats, p \in SvcPolls, o \in Dishes : SvcAddOptionToVote(c, p, o)
  \/ \E c \in SvcChats, cook \in Users : SvcCreateDinner(c, "A", cook)
  \/ \E c \in SvcChats : SvcFinishDinner(c)
  \/ \E c \in SvcChats, p \in SvcPolls : SvcGetVoteResults(c, p)
  \/ \E c \in SvcChats, p \in SvcPolls, m \in 0..MaxMembers, pct \in Fractions :
       SvcCheckVoteThreshold(c, p, m, pct)

SpecSvc == Init /\ [][NextSvc]_vars

\* ------------------------------------------------- the program (Spec)
\* The bot handles one update at a time; the three scheduler tasks run
\* beside it.  A step is one call of a service, of the store or of Telegram.
botVars == <<polls, buttons, pollChannelMap, bot, updates>>

\* the update loop takes the next update when the handler before it returned
Receive ==
  /\ bot.pc = "idle"
  /\ updates < MaxUpdates
  /\ updates' = updates + 1
schedVars == <<starter, closer, watchdog, volunteerWaitStart, pending, stopChan>>

\* the /dinner command
DinnerCommand(c) ==
  /\ Receive
  /\ polls < MaxPolls
  /\ \E opts \in SuggestedOptions :
       /\ polls' = polls + 1
       /\ pollChannelMap' = Put(pollChannelMap, polls + 1, c)
       /\ store' = CreateVote(store, c, polls + 1, opts, now).store
  /\ UNCHANGED <<sessVars, extVars, now, boot, ret, buttons, bot, schedVars>>

\* a poll answer arrives: find the channel, read the vote, record the ballot
\* (i is the 1-based position of the chosen option)
PollAnswer(p, u, i) ==
  /\ Receive
  /\ p \in 1..polls
  /\ LET f == IF p \in DOMAIN pollChannelMap
               THEN [store |-> store, err |-> "", channel |-> pollChannelMap[p]]
               ELSE FindChannelByPollID(store, p)
         c == f.channel
     IN
       /\ f.err = ""
       /\ pollChannelMap' = Put(pollChannelMap, p, c)
       /\ <<c, p>> \in DOMAIN f.store.vote
       /\ i <= Len(f.store.vote[<<c, p>>].Options)
       /\ LET r == RecordVote(f.store, c, p, u, f.store.vote[<<c, p>>].Options[i]) IN
            /\ r.err = ""
            /\ store' = r.store
       /\ bot' = [IdleBot EXCEPT !.pc = "getChannel", !.c = c, !.p = p, !.u = u]
  /\ UNCHANGED <<sessVars, extVars, now, boot, ret, polls, buttons, schedVars>>

\* store.Get of the channel state
BotGetChannel ==
  /\ bot.pc = "getChannel"
  /\ bot' = IF bot.c \in DOMAIN store.channel
            THEN [bot EXCEPT !.pc = "memberCount", !.cs = <<store.channel[bot.c]>>]
            ELSE IdleBot
  /\ UNCHANGED <<sessVars, extVars, store, now, boot, ret, polls, buttons, pollChannelMap, schedVars, updates>>

\* bot.GetChatMemberCount fails: the stored count, or the default when it is 0
BotMemberCountFails ==
  /\ bot.pc = "memberCount"
  /\ bot' = [bot EXCEPT !.pc = "threshold",
                         !.m = IF bot.cs[1].MemberCount = 0 THEN DefaultMemberCount
                               ELSE bot.cs[1].MemberCount]
  /\ UNCHANGED <<sessVars, extVars, store, now, boot, ret, polls, buttons, pollChannelMap, schedVars, updates>>

\* bot.GetChatMemberCount answers n: the count without the bot is stored
BotMemberCount(n) ==
  /\ bot.pc = "memberCount"
  /\ bot' = [bot EXCEPT !.pc = "threshold", !.m = n - 1]
  /\ store' = [store EXCEPT !.channel =
                 Put(@, bot.c, [bot.cs[1] EXCEPT !.MemberCount = n - 1])]
  /\ UNCHANGED <<sessVars, extVars, now, boot, ret, polls, buttons, pollChannelMap, schedVars, updates>>

\* pollService.CheckVoteThreshold(channel, poll, memberCount, 2.0/3.0)
BotCheckThreshold ==
  /\ bot.pc = "threshold"
  /\ LET r == CheckVoteThreshold(store, bot.c, bot.p, bot.m, <<2, 3>>) IN
       IF r.err = "" /\ r.reached
       THEN \E w \in r.winners : bot' = [bot EXCEPT !.pc = "endVote", !.w = w]
       ELSE bot' = IdleBot
  /\ UNCHANGED <<sessVars, extVars, store, now, boot, ret, polls, buttons, pollChannelMap, schedVars, updates>>

\* pollService.EndVote, then the "I'll cook!" button is posted
BotEndVote ==
  /\ bot.pc = "endVote"
  /\ LET r == EndVote(store, bot.c, bot.p, bot.w, now) IN
       /\ store' = r.store
       /\ buttons' = IF r.err = "" THEN buttons \cup {<<bot.c, bot.p>>} ELSE buttons
  /\ bot' = IdleBot
  /\ UNCHANGED <<sessVars, extVars, now, boot, ret, polls, pollChannelMap, schedVars, updates>>

\* a user presses "I'll cook!": AddCookVolunteer, GetVote, the button is
\* removed, GetDishInfo answers (ok) or fails
VolunteerCallback(c, p, u, ok) ==
  /\ Receive
  /\ <<c, p>> \in buttons
  /\ LET r == AddCookVolunteer(store, c, p, u) IN
       /\ r.err = ""
       /\ store' = r.store
       /\ buttons' = buttons \ {<<c, p>>}
       /\ bot' = IF ok
                 THEN [IdleBot EXCEPT !.pc = "createDinner", !.c = c, !.p = p, !.u = u,
                                      !.w = r.store.vote[<<c, p>>].WinningDish]
                 ELSE IdleBot
  /\ UNCHANGED <<sessVars, extVars, now, boot, ret, polls, pollChannelMap, schedVars>>

\* dinnerService.CreateDinner for the volunteer
BotCreateDinner ==
  /\ bot.pc = "createDinner"
  /\ store' = CreateDinner(store, bot.c, bot.w, bot.u, now).store
  /\ bot' = IdleBot
  /\ UNCHANGED <<sessVars, extVars, now, boot, ret, polls, buttons, pollChannelMap, schedVars, updates>>

\* ---- runDailyDinnerScheduler
StarterTick ==
  /\ "starter" \in pending
  /\ starter.pc = "idle"
  /\ InStartWindow(now)
  /\ pending' = pending \ {"starter"}
  /\ starter' = IF ListChannels(store) = <<>> THEN IdleTask
                ELSE [IdleTask EXCEPT !.pc = "scan", !.queue = ListChannels(store)]
  /\ UNCHANGED <<sessVars, extVars, stopChan, store, now, boot, ret, botVars, closer, watchdog, volunteerWaitStart>>

\* the loop body for one channel: hasDinnerStartedToday
StarterScan ==
  /\ starter.pc = "scan"
  /\ LET c == Head(starter.queue)
         rest == Tail(starter.queue)
     IN starter' = IF ~hasDinnerStartedToday(store, store.channel[c], now)
                   THEN [starter EXCEPT !.pc = "start", !.c = c, !.queue = rest]
                   ELSE IF rest = <<>> THEN IdleTask
                   ELSE [starter EXCEPT !.queue = rest]
  /\ UNCHANGED <<sessVars, extVars, stopChan, store, now, boot, ret, botVars, closer, watchdog, volunteerWaitStart,
                 pending>>

\* the vote keys the starter's calls of startDinnerWorkflow have stored
StarterCreated == IF ret.op = "startDinnerWorkflow" THEN ret.created ELSE {}

\* startDinnerWorkflow for the channel; ret is the log of the votes it stored
StarterStart ==
  /\ starter.pc = "start"
  /\ \E o \in StartOutcomes(store, starter.c, polls, now) :
       /\ store' = o.store
       /\ polls' = o.polls
       /\ ret' = [op |-> "startDinnerWorkflow", err |-> "",
                   created |-> StarterCreated \cup (DOMAIN o.store.vote \ DOMAIN store.vote)]
  /\ starter' = IF starter.queue = <<>> THEN IdleTask
                ELSE [starter EXCEPT !.pc = "scan", !.c = 0]
  /\ UNCHANGED <<sessVars, extVars, stopChan, now, boot, buttons, pollChannelMap, bot, closer, watchdog,
                 volunteerWaitStart, pending, updates>>

\* ---- runDinnerTimeoutChecker
CloserTick ==
  /\ "closer" \in pending
  /\ closer.pc = "idle"
  /\ InEndWindow(now)
  /\ pending' = pending \ {"closer"}
  /\ closer' = IF ListChannels(store) = <<>> THEN IdleTask
               ELSE [IdleTask EXCEPT !.pc = "scan", !.queue = ListChannels(store)]
  /\ UNCHANGED <<sessVars, extVars, stopChan, store, now, boot, ret, botVars, starter, watchdog, volunteerWaitStart>>

CloserNext(rest) == IF rest = <<>> THEN IdleTask
                    ELSE [IdleTask EXCEPT !.pc = "scan", !.queue = rest]

\* the loop body for one channel, and stopDinnerWorkflow up to GetVoteResults
CloserScan ==
  /\ closer.pc = "scan"
  /\ LET c == Head(closer.queue)
         rest == Tail(closer.queue)
         cs == store.channel[c]
         voteActive == cs.CurrentVote # <<>> /\ cs.CurrentVote[1].EndedAt = NoTime
         dinnerActive == cs.CurrentDinner # <<>> /\ cs.CurrentDinner[1].FinishedAt = NoTime
     IN IF ~hasUnfinishedDinnerWorkflow(cs) THEN closer' = CloserNext(rest)
        ELSE IF voteActive
        THEN LET r == GetVoteResults(store, c, cs.CurrentVote[1].PollID) IN
               \E w \in (IF r.err = "" THEN r.winners ELSE {"No winner"}) :
                 closer' = [pc |-> "endVote", queue |-> rest, c |-> c,
                            p |-> cs.CurrentVote[1].PollID, w |-> w,
                            n |-> IF r.err = "" THEN Cardinality(DOMAIN r.results) ELSE 0,
                            dinner |-> dinnerActive]
        ELSE closer' = [IdleTask EXCEPT !.pc = "finish", !.queue = rest, !.c = c]
  /\ UNCHANGED <<sessVars, extVars, stopChan, store, now, boot, ret, botVars, starter, watchdog, volunteerWaitStart,
                 pending>>

\* what stopDinnerWorkflow says after "the dinner poll has been closed": the
\* winning dish if len(results) > 0, and otherwise that nobody voted
Announcement(c, p, n, w) ==
  [c |-> c, p |-> p, text |-> IF n > 0 THEN "winner" ELSE "nobody",
   dish |-> IF n > 0 THEN w ELSE ""]

\* stopDinnerWorkflow: pollService.EndVote and the messages to the channel
CloserEndVote ==
  /\ closer.pc = "endVote"
  /\ store' = EndVote(store, closer.c, closer.p, closer.w, now).store
  /\ sent' = Announcement(closer.c, closer.p, closer.n, closer.w)
  /\ closer' = IF closer.dinner
               THEN [IdleTask EXCEPT !.pc = "finish", !.queue = closer.queue, !.c = closer.c]
               ELSE CloserNext(closer.queue)
  /\ UNCHANGED <<sessVars, txn, stopChan, now, boot, ret, botVars, starter, watchdog, volunteerWaitStart, pending>>

\* stopDinnerWorkflow: dinnerService.FinishDinner
CloserFinishDinner ==
  /\ closer.pc = "finish"
  /\ store' = FinishDinner(store, closer.c, now).store
  /\ closer' = CloserNext(closer.queue)
  /\ UNCHANGED <<sessVars, extVars, stopChan, now, boot, ret, botVars, starter, watchdog, volunteerWaitStart, pending>>

\* ---- runCookVolunteerTimeoutChecker
WatchdogTick ==
  /\ "watchdog" \in pending
  /\ watchdog.pc = "idle"
  /\ pending' = pending \ {"watchdog"}
  /\ watchdog' = IF ListChannels(store) = <<>> THEN IdleTask
                 ELSE [IdleTask EXCEPT !.pc = "scan", !.queue = ListChannels(store)]
  /\ UNCHANGED <<sessVars, extVars, stopChan, store, now, boot, ret, botVars, starter, closer, volunteerWaitStart>>

\* the loop body for one channel, restartDinnerWorkflow included
WatchdogScan ==
  /\ watchdog.pc = "scan"
  /\ LET c == Head(watchdog.queue)
         cs == store.channel[c]
         voteID == cs.CurrentVote[1].PollID
     IN IF AwaitsVolunteer(cs)
        THEN IF voteID \notin DOMAIN volunteerWaitStart
             THEN /\ volunteerWaitStart' = Put(volunteerWaitStart, voteID, now)
                  /\ UNCHANGED <<store, polls>>
             ELSE IF now - volunteerWaitStart[voteID] > GracePeriod
             THEN /\ volunteerWaitStart' = Delete(volunteerWaitStart, voteID)
                  /\ LET r == ClearEndedVote(store, c) IN
                       IF r.cleared
                       THEN \E o \in StartOutcomes(r.store, c, polls, now) :
                              store' = o.store /\ polls' = o.polls
                       ELSE UNCHANGED <<store, polls>>
             ELSE UNCHANGED <<store, polls, volunteerWaitStart>>
        ELSE IF cs.CurrentVote # <<>> /\ Len(cs.CurrentVote[1].CookVolunteers) > 0
        THEN /\ volunteerWaitStart' = Delete(volunteerWaitStart, voteID)
             /\ UNCHANGED <<store, polls>>
        ELSE UNCHANGED <<store, polls, volunteerWaitStart>>
  /\ watchdog' = CloserNext(Tail(watchdog.queue))
  /\ UNCHANGED <<sessVars, extVars, stopChan, now, boot, ret, buttons, pollChannelMap, bot, starter, closer, pending,
                 updates>>

\* ---- the clock
\* A task whose tick is still pending has work to do unless it is outside
\* its window; a task handles its tick within the minute.
TickHandled ==
  /\ starter.pc \in {"idle", "done"}
  /\ closer.pc \in {"idle", "done"}
  /\ watchdog.pc \in {"idle", "done"}
  /\ "starter" \in pending => ~InStartWindow(now)
  /\ "closer" \in pending => ~InEndWindow(now)

\* The tickers of the tasks of T fire.  With the watchdog among them a
\* minute passes; without it the clock moves to the next minute in which
\* the starter or the closer finds its window open.
Tick(T, limit) ==
  /\ (IF "watchdog" \in T THEN now - boot ELSE WindowMinutesBetween(boot, now)) < limit
  /\ TickHandled
  /\ "watchdog" \in T => "watchdog" \notin pending
  /\ now' = IF "watchdog" \in T THEN now + 1 ELSE NextWindowMinute(now + 1)
  /\ pending' = T
  /\ UNCHANGED <<sessVars, extVars, stopChan, store, boot, ret, botVars, starter, closer, watchdog, volunteerWaitStart>>

BotNext ==
  \/ \E c \in Chats : DinnerCommand(c)
  \/ \E p \in PollIds, u \in Users, i \in 1..2 : PollAnswer(p, u, i)
  \/ BotGetChannel
  \/ BotMemberCountFails
  \/ \E n \in MemberCounts : BotMemberCount(n)
  \/ BotCheckThreshold
  \/ BotEndVote
  \/ \E c \in Chats, p \in PollIds, u \in Users, ok \in BOOLEAN : VolunteerCallback(c, p, u, ok)
  \/ BotCreateDinner

Next ==
  \/ BotNext
  \/ StarterTick
  \/ StarterScan
  \/ StarterStart
  \/ CloserTick
  \/ CloserScan
  \/ CloserEndVote
  \/ CloserFinishDinner
  \/ Tick({"starter", "closer"}, MaxTicks)

Spec == Init /\ [][Next]_vars

\* ------------------------------- the ballot path (SpecBallot)
\* The update loop beside the one task that also ends votes, the closer.
NextBallot ==
  \/ BotNext
  \/ CloserTick
  \/ CloserScan
  \/ CloserEndVote
  \/ CloserFinishDinner
  \/ Tick({"closer"}, MaxCloserTicks)

SpecBallot == Init /\ [][NextBallot]_vars

\* ------------------------------- the start window (SpecStarter)
\* The update loop beside the starter, over the minutes of the windows; the
\* process starts in the last minute of the closing window.
InitStarter ==
  /\ store = EmptyStore
  /\ boot = BootTime + 1
  /\ now = boot
  /\ ret = [op |-> "none", err |-> ""]
  /\ polls = 0
  /\ buttons = {}
  /\ pollChannelMap = <<>>
  /\ bot = IdleBot
  /\ starter = IdleTask
  /\ closer = IdleTask
  /\ watchdog = IdleTask
  /\ volunteerWaitStart = <<>>
  /\ pending = {}
  /\ updates = 0
  /\ NoSession
  /\ stopChan = "open"
  /\ NoCalls

NextStarter ==
  \/ BotNext
  \/ StarterTick
  \/ StarterScan
  \/ StarterStart
  \/ Tick({"starter"}, MaxStarterTicks)

SpecStarter == InitStarter /\ [][NextStarter]_vars

\* ------------------------------------------- the watchdog (SpecWatch)
\* The state the program is in when /dinner was sent in chat 1 and the
\* ballots of u1 and u2, both for "A", have ended the vote by quorum (the
\* member count fell back to the default): three updates were received, the
\* "I'll cook!" button is posted, nobody has pressed it.
VoteEndedByQuorum ==
  LET s1 == CreateVote(EmptyStore, 1, 1, <<"A", "B">>, BootTime).store
      s2 == RecordVote(s1, 1, 1, "u1", "A").store
      s3 == RecordVote(s2, 1, 1, "u2", "A").store
  IN EndVote(s3, 1, 1, "A", BootTime).store

AwaitingVolunteer ==
  /\ store = VoteEndedByQuorum
  /\ boot = BootTime
  /\ now = boot
  /\ ret = [op |-> "none", err |-> ""]
  /\ polls = 1
  /\ buttons = {<<1, 1>>}
  /\ pollChannelMap = Put(<<>>, 1, 1)
  /\ bot = IdleBot
  /\ starter = IdleTask
  /\ closer = IdleTask
  /\ watchdog = IdleTask
  /\ volunteerWaitStart = <<>>
  /\ pending = {}
  /\ updates = 3
  /\ NoSession
  /\ stopChan = "open"
  /\ NoCalls

\* From there the watchdog's ticker fires every minute, beside the updates
\* that start a vote or volunteer a cook.
NextWatch ==
  \/ \E c \in Chats : DinnerCommand(c)
  \/ \E c \in Chats, p \in PollIds, u \in Users, ok \in BOOLEAN : VolunteerCallback(c, p, u, ok)
  \/ BotCreateDinner
  \/ WatchdogTick
  \/ WatchdogScan
  \/ Tick({"watchdog"}, GracePeriod + MaxTicks)

SpecWatch == AwaitingVolunteer /\ [][NextWatch]_vars

\* -------------------------------------- two channels (SpecTenants)
\* Calls of poll.Service and dinner.Service for two chats, made in the
\* minutes before and in the closing window, beside the closer and the
\* starter, which scan every channel the calls have stored.
TenantChats == {1, 2}

InitTenants ==
  /\ store = EmptyStore
  /\ boot = EndHour * 60 - 1
  /\ now = boot
  /\ ret = [op |-> "none", err |-> ""]
  /\ polls = 0
  /\ buttons = {}
  /\ pollChannelMap = <<>>
  /\ bot = IdleBot
  /\ starter = IdleTask
  /\ closer = IdleTask
  /\ watchdog = IdleTask
  /\ volunteerWaitStart = <<>>
  /\ pending = {}
  /\ updates = 0
  /\ NoSession
  /\ stopChan = "open"
  /\ NoCalls

TenantCall ==
  \E c \in TenantChats :
    \/ SvcCreateVote(c, 1, <<"A", "B">>)
    \/ SvcRecordVote(c, 1, "u1", "A")
    \/ SvcEndVote(c, 1, "A")
    \/ SvcAddCookVolunteer(c, 1, "u1")
    \/ SvcSelectCook(c, 1, "u1")
    \/ SvcAddOptionToVote(c, 1, "C")
    \/ SvcCreateDinner(c, "A", "u1")
    \/ SvcFinishDinner(c)

NextTenants ==
  \/ TenantCall
  \/ StarterTick
  \/ StarterScan
  \/ StarterStart
  \/ CloserTick
  \/ CloserScan
  \/ CloserEndVote
  \/ CloserFinishDinner
  \/ Tick({"starter", "closer"}, MaxTenantTicks)

SpecTenants == InitTenants /\ [][NextTenants]_vars

\* ------------------------------------------- Start and Stop (SpecStop)
\* the loop variable of a task
TaskOf(t) == IF t = "starter" THEN starter ELSE IF t = "closer" THEN closer ELSE watchdog

\* mutant of CanExit: a task at its select returns whatever the channel
CanExit_Unsignalled(t) == TaskOf(t).pc = "idle"

\* case <-s.stopChan: the task is at its select and the channel is closed
CanExit(t) == TaskOf(t).pc = "idle" /\ stopChan = "closed"

\* Stop: close(s.stopChan)
Stop ==
  /\ stopChan = "open"
  /\ NoCalls
  /\ stopChan' = "closed"
  /\ UNCHANGED <<sessVars, extVars, store, now, boot, ret, botVars, starter, closer, watchdog,
                 volunteerWaitStart, pending>>

\* case <-s.stopChan: return, and the deferred ticker.Stop()
TaskExit(t) ==
  /\ CanExit(t)
  /\ starter' = IF t = "starter" THEN [IdleTask EXCEPT !.pc = "done"] ELSE starter
  /\ closer' = IF t = "closer" THEN [IdleTask EXCEPT !.pc = "done"] ELSE closer
  /\ watchdog' = IF t = "watchdog" THEN [IdleTask EXCEPT !.pc = "done"] ELSE watchdog
  /\ pending' = pending \ {t}
  /\ UNCHANGED <<sessVars, extVars, stopChan, store, now, boot, ret, botVars, volunteerWaitStart>>

\* the tasks whose tickers run
Running == {t \in Tasks : TaskOf(t).pc # "done"}

\* Start was called in the start window of the day after the vote of
\* VoteEndedByQuorum, or in the end window of its day.
InitStop ==
  /\ store = VoteEndedByQuorum
  /\ boot \in {BootTime, 1440 + StartHour * 60 + WindowMinutes - 2}
  /\ now = boot
  /\ ret = [op |-> "none", err |-> ""]
  /\ polls = 1
  /\ buttons = {<<1, 1>>}
  /\ pollChannelMap = Put(<<>>, 1, 1)
  /\ bot = IdleBot
  /\ starter = IdleTask
  /\ closer = IdleTask
  /\ watchdog = IdleTask
  /\ volunteerWaitStart = <<>>
  /\ pending = {}
  /\ updates = 3
  /\ NoSession
  /\ stopChan = "open"
  /\ NoCalls

NextStop ==
  \/ \E c \in Chats : DinnerCommand(c)
  \/ \E c \in Chats, p \in PollIds, u \in Users, ok \in BOOLEAN : VolunteerCallback(c, p, u, ok)
  \/ BotCreateDinner
  \/ StarterTick
  \/ StarterScan
  \/ StarterStart
  \/ CloserTick
  \/ CloserScan
  \/ CloserEndVote
  \/ CloserFinishDinner
  \/ WatchdogTick
  \/ WatchdogScan
  \/ Tick(Running, MaxStopMinutes)
  \/ Stop
  \/ \E t \in Tasks : TaskExit(t)

\* A goroutine that can take a step takes one; a select whose stop case is
\* ready again and again takes it (select picks among its ready cases at
\* random).
SpecStop ==
  /\ InitStop
  /\ [][NextStop]_vars
  /\ WF_vars(StarterScan \/ StarterStart)
  /\ WF_vars(CloserScan \/ CloserEndVote \/ CloserFinishDinner)
  /\ WF_vars(WatchdogScan)
  /\ \A t \in Tasks : SF_vars(TaskExit(t))

\* ------------------------------- store errors in the starter (SpecFaults)
\* The store operations of the starter's loop body that can return an error
StoreFaults == {"getChannel", "listDinners", "getDinner", "listVotes", "getVote"}

\* hasDinnerStartedToday when the store operation f returns an error: a List
\* that fails returns false at once, a Get that fails skips the record
hasDinnerStartedTodayFault(s, cs, t, f) ==
  IF cs.CurrentDinner # <<>> \/ cs.CurrentVote # <<>> THEN TRUE
  ELSE IF f = "listDinners" THEN FALSE
  ELSE IF /\ f # "getDinner"
          /\ \E k \in DOMAIN s.dinner : k[1] = cs.ChannelID /\ s.dinner[k].StartedAt > Today(t)
       THEN TRUE
  ELSE IF f = "listVotes" THEN FALSE
  ELSE /\ f # "getVote"
       /\ \E k \in DOMAIN s.vote : k[1] = cs.ChannelID /\ s.vote[k].StartedAt > Today(t)

\* the starter's loop body for one channel when the store operation f fails
StarterScanFault(f) ==
  /\ starter.pc = "scan"
  /\ LET c == Head(starter.queue)
         rest == Tail(starter.queue)
     IN starter' = IF /\ f # "getChannel"
                      /\ ~hasDinnerStartedTodayFault(store, store.channel[c], now, f)
                   THEN [starter EXCEPT !.pc = "start", !.c = c, !.queue = rest]
                   ELSE IF rest = <<>> THEN IdleTask
                   ELSE [starter EXCEPT !.queue = rest]
  /\ UNCHANGED <<sessVars, extVars, stopChan, store, now, boot, ret, botVars, closer, watchdog,
                 volunteerWaitStart, pending>>

\* The process starts a minute before the start window; calls for two chats
\* store votes and dinners of the day; the starter scans them.
InitFaults ==
  /\ store = EmptyStore
  /\ boot = StartHour * 60 - 1
  /\ now = boot
  /\ ret = [op |-> "none", err |-> ""]
  /\ polls = 0
  /\ buttons = {}
  /\ pollChannelMap = <<>>
  /\ bot = IdleBot
  /\ starter = IdleTask
  /\ closer = IdleTask
  /\ watchdog = IdleTask
  /\ volunteerWaitStart = <<>>
  /\ pending = {}
  /\ updates = 0
  /\ NoSession
  /\ stopChan = "open"
  /\ NoCalls

NextFaults ==
  \/ TenantCall
  \/ StarterTick
  \/ StarterScan
  \/ \E f \in StoreFaults : StarterScanFault(f)
  \/ StarterStart
  \/ Tick({"starter"}, MaxFaultTicks)

SpecFaults == InitFaults /\ [][NextFaults]_vars

\* ------------------------------------ the state manager (SpecSession)
\* Two goroutines call state.Manager for one chat.  A method that takes the
\* write lock runs in one step, when no read lock is held; GetState and
\* GetData take and release the read lock in steps of their own, so that
\* the other goroutine runs between the RUnlock and the Lock of an eviction.
SessionChats == {1}
Modes == {"adding_ingredients", "suggesting_dish"}
DataKeys == {"k"}
DataValues == {"v"}

\* ChatState{State, Timestamp: time.Now(), Data: make(map[string]string)}
NewChatState(mode, t) == [State |-> mode, Timestamp |-> t, Data |-> <<>>]

\* mutant of Expired: a state is dropped from the tenth minute on
Expired_AtWindow(cs, t) == t - cs.Timestamp >= IdleWindow

\* time.Since(state.Timestamp) > 10*time.Minute
Expired(cs, t) == t - cs.Timestamp > IdleWindow

\* m.mu.Lock() ... defer m.mu.Unlock(): the caller is between calls and
\* nobody holds a read lock
CanLock(i) == callers[i].pc = "idle" /\ mu = 0

SetState(i, c, mode) ==
  /\ CanLock(i)
  /\ states' = IF c \in DOMAIN states
               THEN [states EXCEPT ![c].State = mode, ![c].Timestamp = now]
               ELSE Put(states, c, NewChatState(mode, now))
  /\ callers' = [callers EXCEPT ![i] = [IdleCaller EXCEPT !.op = "SetState", !.c = c]]
  /\ UNCHANGED <<store, now, boot, ret, botVars, schedVars, extVars, mu>>

ClearState(i, c) ==
  /\ CanLock(i)
  /\ states' = Delete(states, c)
  /\ callers' = [callers EXCEPT ![i] = [IdleCaller EXCEPT !.op = "ClearState", !.c = c]]
  /\ UNCHANGED <<store, now, boot, ret, botVars, schedVars, extVars, mu>>

SetData(i, c, k, v) ==
  /\ CanLock(i)
  /\ states' = IF c \in DOMAIN states
               THEN [states EXCEPT ![c].Data = Put(@, k, v), ![c].Timestamp = now]
               ELSE Put(states, c, [NewChatState("normal", now) EXCEPT !.Data = Put(@, k, v)])
  /\ callers' = [callers EXCEPT ![i] = [IdleCaller EXCEPT !.op = "SetData", !.c = c, !.key = k]]
  /\ UNCHANGED <<store, now, boot, ret, botVars, schedVars, extVars, mu>>

ClearData(i, c, k) ==
  /\ CanLock(i)
  /\ states' = IF c \in DOMAIN states
               THEN [states EXCEPT ![c].Data = Delete(@, k), ![c].Timestamp = now]
               ELSE states
  /\ callers' = [callers EXCEPT ![i] = [IdleCaller EXCEPT !.op = "ClearData", !.c = c, !.key = k]]
  /\ UNCHANGED <<store, now, boot, ret, botVars, schedVars, extVars, mu>>

\* GetState or GetData: m.mu.RLock(); defer m.mu.RUnlock()
GetBegin(i, op, c, k) ==
  /\ callers[i].pc = "idle"
  /\ mu' = mu + 1
  /\ callers' = [callers EXCEPT ![i] = [IdleCaller EXCEPT !.pc = "read", !.op = op, !.c = c,
                                                           !.key = k, !.held = 1]]
  /\ UNCHANGED <<store, now, boot, ret, botVars, schedVars, extVars, states>>

\* the lookup under the read lock: the value to return, or m.mu.RUnlock()
\* on the way to the eviction of a state older than the idle window
GetRead(i) ==
  /\ callers[i].pc = "read"
  /\ LET me == callers[i]
         c == me.c
     IN IF c \in DOMAIN states /\ Expired(states[c], now)
        THEN /\ mu' = mu - 1
             /\ callers' = [callers EXCEPT ![i].pc = "evict", ![i].held = @ - 1]
        ELSE /\ mu' = mu
             /\ callers' = [callers EXCEPT
                  ![i].pc = "return",
                  ![i].out = IF c \notin DOMAIN states
                             THEN (IF me.op = "GetState" THEN "normal" ELSE "")
                             ELSE IF me.op = "GetState" THEN states[c].State
                             ELSE IF me.key \in DOMAIN states[c].Data
                             THEN states[c].Data[me.key] ELSE "",
                  ![i].ok = /\ me.op = "GetData"
                            /\ c \in DOMAIN states
                            /\ me.key \in DOMAIN states[c].Data]
  /\ UNCHANGED <<store, now, boot, ret, botVars, schedVars, extVars, states>>

\* m.mu.Lock(); delete(m.states, chatID); m.mu.Unlock()
GetEvict(i) ==
  /\ callers[i].pc = "evict"
  /\ mu = 0
  /\ states' = Delete(states, callers[i].c)
  /\ callers' = [callers EXCEPT ![i].pc = "relock", ![i].evicted = TRUE]
  /\ UNCHANGED <<store, now, boot, ret, botVars, schedVars, extVars, mu>>

\* m.mu.RLock(); return StateNormal (GetState) or "", false (GetData)
GetRelock(i) ==
  /\ callers[i].pc = "relock"
  /\ mu' = mu + 1
  /\ callers' = [callers EXCEPT ![i].pc = "return", ![i].held = @ + 1,
                                 ![i].out = IF callers[i].op = "GetState" THEN "normal" ELSE "",
                                 ![i].ok = FALSE]
  /\ UNCHANGED <<store, now, boot, ret, botVars, schedVars, extVars, states>>

\* the deferred m.mu.RUnlock()
GetReturn(i) ==
  /\ callers[i].pc = "return"
  /\ mu' = mu - 1
  /\ callers' = [callers EXCEPT ![i].pc = "idle", ![i].held = @ - 1]
  /\ UNCHANGED <<store, now, boot, ret, botVars, schedVars, extVars, states>>

\* d minutes pass
Pass(d) ==
  /\ now + d - boot <= MaxSessionMinutes
  /\ now' = now + d
  /\ UNCHANGED <<store, boot, ret, botVars, schedVars, extVars, sessVars>>

NextSession ==
  \/ \E i \in Callers, c \in SessionChats, mode \in Modes : SetState(i, c, mode)
  \/ \E i \in Callers, c \in SessionChats : ClearState(i, c)
  \/ \E i \in Callers, c \in SessionChats, k \in DataKeys, v \in DataValues : SetData(i, c, k, v)
  \/ \E i \in Callers, c \in SessionChats, k \in DataKeys : ClearData(i, c, k)
  \/ \E i \in Callers, c \in SessionChats : GetBegin(i, "GetState", c, "")
  \/ \E i \in Callers, c \in SessionChats, k \in DataKeys : GetBegin(i, "GetData", c, k)
  \/ \E i \in Callers : GetRead(i)
  \/ \E i \in Callers : GetEvict(i)
  \/ \E i \in Callers : GetRelock(i)
  \/ \E i \in Callers : GetReturn(i)
  \/ \E d \in {1, IdleWindow} : Pass(d)

SpecSession == Init /\ [][NextSession]_vars

\* ---------------------------------------- dinner ratings (SpecRate)
\* Calls of dinner.Service for one chat: dinners are created and finished,
\* and RateDinner is called for every dinner ID a call could have made, with
\* ratings inside and outside 1..5.  ret is what the call returned, and for
\* RateDinner who rated and whether that user had rated before.
RatingInputs == {0, 2, 4, 5, 6}
DinnerIDs == {<<c, t>> : c \in SvcChats, t \in BootTime..(BootTime + MaxOps)}

SvcRateDinner(d, u, rating) ==
  /\ CanCall
  /\ LET r == RateDinner(store, d, u, rating) IN
       /\ store' = r.store
       /\ ret' = [op |-> "RateDinner", err |-> r.err, user |-> u,
                   again |-> d \in DOMAIN store.dinner /\ u \in DOMAIN store.dinner[d].Ratings]
  /\ now' = now + 1
  /\ UNCHANGED <<boot, progVars>>

NextRate ==
  \/ \E c \in SvcChats, cook \in Users : SvcCreateDinner(c, "A", cook)
  \/ \E c \in SvcChats : SvcFinishDinner(c)
  \/ \E d \in DinnerIDs, u \in Users, rating \in RatingInputs : SvcRateDinner(d, u, rating)

SpecRate == Init /\ [][NextRate]_vars

\* -------------------------- store calls that overlap (SpecRace)
\* Every call of poll.Service on a vote is a store.Get of the vote key,
\* the change of the copy, and a store.Set of the copy: two Badger
\* transactions with nothing to order them against the calls of another
\* goroutine.  The update loop makes its calls one after another; the closer
\* runs EndVote beside it.
RaceChat == 1
RacePoll == 1
RaceKey == <<RaceChat, RacePoll>>
RaceOps == [bot |-> {"RecordVote", "AddOptionToVote", "AddCookVolunteer", "SelectCook",
                     "EndVote"},
            closer |-> {"EndVote"}]
RaceUsers == {"u1", "u2"}
RaceDishes == {"A", "C"}
\* the calls made, <<operation, user, option>>, with "" for what a call
\* does not take
RaceCalls ==
  {<<"RecordVote", u, o>> : u \in RaceUsers, o \in RaceDishes}
    \cup {<<"AddOptionToVote", "", o>> : o \in RaceDishes}
    \cup {<<"AddCookVolunteer", u, "">> : u \in RaceUsers}
    \cup {<<"SelectCook", u, "">> : u \in RaceUsers}
    \cup {<<"EndVote", "", "A">>}

\* the call as poll.Service computes it from the store it reads
Call(s, op, u, o, t) ==
  IF op = "RecordVote" THEN RecordVote(s, RaceChat, RacePoll, u, o)
  ELSE IF op = "AddOptionToVote" THEN AddOptionToVote(s, RaceChat, RacePoll, o)
  ELSE IF op = "AddCookVolunteer" THEN AddCookVolunteer(s, RaceChat, RacePoll, u)
  ELSE IF op = "SelectCook" THEN SelectCook(s, RaceChat, RacePoll, u)
  ELSE EndVote(s, RaceChat, RacePoll, o, t)

\* store.Get(voteKey, &vote) and the checks: the call returns at once with an
\* error, or with nil when it has nothing to write, and otherwise holds the
\* changed copy
CallGet(i, op, u, o) ==
  /\ now - boot < MaxRaceCalls
  /\ txn[i].pc = "idle"
  /\ op \in RaceOps[i]
  /\ LET r == Call(store, op, u, o, now)
         done == [IdleCall EXCEPT !.op = op, !.u = u, !.o = o, !.err = r.err]
     IN txn' = [txn EXCEPT ![i] =
                  IF r.store.vote[RaceKey] = store.vote[RaceKey] /\ op # "EndVote"
                  THEN done
                  ELSE [done EXCEPT !.pc = "set", !.vote = <<r.store.vote[RaceKey]>>]]
  /\ now' = now + 1
  /\ UNCHANGED <<store, boot, ret, botVars, schedVars, sessVars, sent>>

\* store.Set(voteKey, vote): the copy replaces whatever the key holds
CallSet(i) ==
  /\ txn[i].pc = "set"
  /\ store' = [store EXCEPT !.vote[RaceKey] = txn[i].vote[1]]
  /\ txn' = [txn EXCEPT ![i].pc = IF txn[i].op = "EndVote" THEN "channel" ELSE "idle",
                         ![i].vote = <<>>]
  /\ UNCHANGED <<now, boot, ret, botVars, schedVars, sessVars, sent>>

\* EndVote: the channel state is read and stored without CurrentVote when
\* CurrentVote is this poll
CallChannel(i) ==
  /\ txn[i].pc = "channel"
  /\ store' = [store EXCEPT !.channel =
                 EndVote(store, RaceChat, RacePoll, txn[i].o, now).store.channel]
  /\ txn' = [txn EXCEPT ![i].pc = "idle"]
  /\ UNCHANGED <<now, boot, ret, botVars, schedVars, sessVars, sent>>

\* /dinner has created poll 1 with the options A and B in chat 1
InitRace ==
  /\ store = CreateVote(EmptyStore, RaceChat, RacePoll, <<"A", "B">>, BootTime).store
  /\ boot = BootTime
  /\ now = BootTime
  /\ ret = [op |-> "none", err |-> ""]
  /\ polls = 1
  /\ buttons = {}
  /\ pollChannelMap = Put(<<>>, RacePoll, RaceChat)
  /\ bot = IdleBot
  /\ starter = IdleTask
  /\ closer = IdleTask
  /\ watchdog = IdleTask
  /\ volunteerWaitStart = <<>>
  /\ pending = {}
  /\ updates = 0
  /\ NoSession
  /\ stopChan = "open"
  /\ NoCalls

NextRace ==
  \/ \E i \in Parties, call \in RaceCalls : CallGet(i, call[1], call[2], call[3])
  \/ \E i \in Parties : CallSet(i)
  \/ \E i \in Parties : CallChannel(i)

SpecRace == InitRace /\ [][NextRace]_vars

\* ------------------------------- the dinner_ready button (SpecReady)
\* callbackHandlers["dinner_ready:"]: user u presses the button of dinner d,
\* posted in chat c.  The handler reads the dinner, turns away everybody but
\* its cook, and calls FinishDinner for the chat.
DinnerReady(s, c, d, u, t) ==
  IF d \notin DOMAIN s.dinner THEN [store |-> s, err |-> "key not found"]
  ELSE IF s.dinner[d].Cook # u THEN [store |-> s, err |-> "only the cook"]
  ELSE FinishDinner(s, c, t)

DinnerReadyCallback(d, u) ==
  /\ CanCall
  /\ d \in DOMAIN store.dinner
  /\ LET r == DinnerReady(store, d[1], d, u, now) IN
       /\ store' = r.store
       /\ ret' = [op |-> "dinner_ready", err |-> r.err, user |-> u, dinner |-> d]
  /\ now' = now + 1
  /\ UNCHANGED <<boot, progVars>>

\* Dinners are created for the volunteers and finished by the closer or by
\* the button under the cooking instructions of any dinner created so far.
NextReady ==
  \/ \E c \in SvcChats, cook \in Users : SvcCreateDinner(c, "A", cook)
  \/ \E c \in SvcChats : SvcFinishDinner(c)
  \/ \E d \in DinnerIDs, u \in Users : DinnerReadyCallback(d, u)

SpecReady == Init /\ [][NextReady]_vars

\* ------------------------------------- poll lookups (SpecResolve)
\* Votes of two chats under the poll ids Telegram hands out, each one a new
\* id; the poll_mapping write of CreateVote succeeds or fails; votes end;
\* FindChannelByPollID is asked for any poll id.  ret is what the lookup
\* returned and whether it found the poll_mapping key.
ResolveChats == {1, 2}

ResCreateVote(c, mapped) ==
  /\ polls < MaxPolls
  /\ polls' = polls + 1
  /\ store' = IF mapped THEN CreateVote(store, c, polls + 1, <<"A", "B">>, now).store
               ELSE CreateVoteUnmapped(store, c, polls + 1, <<"A", "B">>, now).store
  /\ ret' = [op |-> "CreateVote", err |-> ""]
  /\ UNCHANGED <<sessVars, extVars, now, boot, buttons, pollChannelMap, bot, schedVars, updates>>

ResEndVote(c, p) ==
  /\ <<c, p>> \in DOMAIN store.vote
  /\ store.vote[<<c, p>>].EndedAt = NoTime
  /\ store' = EndVote(store, c, p, "A", now).store
  /\ ret' = [op |-> "EndVote", err |-> ""]
  /\ UNCHANGED <<sessVars, extVars, now, boot, polls, buttons, pollChannelMap, bot, schedVars, updates>>

ResFind(p) ==
  /\ LET r == FindChannelByPollID(store, p) IN
       /\ store' = r.store
       /\ ret' = [op |-> "FindChannelByPollID", err |-> r.err, channel |-> r.channel,
                   poll |-> p, mapped |-> p \in DOMAIN store.pollMapping]
  /\ UNCHANGED <<sessVars, extVars, now, boot, polls, buttons, pollChannelMap, bot, schedVars, updates>>

NextResolve ==
  \/ \E c \in ResolveChats, mapped \in BOOLEAN : ResCreateVote(c, mapped)
  \/ \E c \in ResolveChats, p \in PollIds : ResEndVote(c, p)
  \/ \E p \in PollIds : ResFind(p)

SpecResolve == Init /\ [][NextResolve]_vars

\* ------------------------------------------------------------ claims
RECURSIVE SumOver(_, _)
SumOver(r, S) ==
  IF S = {} THEN 0
  ELSE LET x == CHOOSE y \in S : TRUE IN r[x] + SumOver(r, S \ {x})

NumBallots(vote) == Cardinality(DOMAIN vote.Votes)

\* C4: CheckVoteThreshold returns reached = TRUE exactly when the vote has not
\* ended and the number of ballots is at least ceil(memberCount * fraction)
\* (ballots * den >= memberCount * num), for every member count and fraction.
C4_QuorumIff ==
  [][\A c \in SvcChats, p \in SvcPolls, m \in 0..MaxMembers, pct \in Fractions :
       (SvcCheckVoteThreshold(c, p, m, pct) /\ <<c, p>> \in DOMAIN store.vote) =>
         LET vote == store.vote[<<c, p>>] IN
           /\ ret'.err = ""
           /\ ret'.reached <=> (/\ vote.EndedAt = NoTime
                                /\ NumBallots(vote) * pct[2] >= m * pct[1])]_vars

\* C4 witness: a quorum check answered reached on a vote holding two ballots
C4_Witness ==
  /\ ret.op = "CheckVoteThreshold"
  /\ ret.reached
  /\ \E k \in DOMAIN store.vote : NumBallots(store.vote[k]) = 2

\* C5: a successful RecordVote leaves votes[U] = the option just cast, keeps
\* every other user's ballot, leaves endedAt alone, and the tally of the new
\* vote state counts U once, at the option just cast.
C5_LastVoteWins ==
  [][\A c \in SvcChats, p \in SvcPolls, u \in Users, o \in Dishes :
       (SvcRecordVote(c, p, u, o) /\ ret'.err = "") =>
         LET old == store.vote[<<c, p>>]
             new == store'.vote[<<c, p>>]
         IN /\ DOMAIN new.Votes = DOMAIN old.Votes \cup {u}
            /\ new.Votes[u] = o
            /\ \A x \in DOMAIN old.Votes \ {u} : new.Votes[x] = old.Votes[x]
            /\ new.EndedAt = old.EndedAt
            /\ \A d \in Range(new.Options) :
                 Results(new)[d] =
                   Cardinality({x \in DOMAIN old.Votes \ {u} : old.Votes[x] = d})
                   + (IF d = o THEN 1 ELSE 0)]_vars

\* C5 witness: a ballot was recorded on a vote that holds ballots for A and B
C5_Witness ==
  /\ ret.op = "RecordVote"
  /\ ret.err = ""
  /\ \E k \in DOMAIN store.vote : Range(store.vote[k].Votes) = {"A", "B"}

\* C6: GetVoteResults returns a count for every option (0 without a ballot),
\* the counts sum to the number of ballots, the winner's count is at least
\* every other count, and the winner is "" when there is no ballot.
C6_Tally ==
  [][\A c \in SvcChats, p \in SvcPolls :
       (SvcGetVoteResults(c, p) /\ ret'.err = "") =>
         LET vote == store.vote[<<c, p>>]
             r == ret'.results
         IN /\ Range(vote.Options) \subseteq DOMAIN r
            /\ \A o \in Range(vote.Options) :
                 r[o] = Cardinality({u \in DOMAIN vote.Votes : vote.Votes[u] = o})
            /\ SumOver(r, Range(vote.Options)) = NumBallots(vote)
            /\ NumBallots(vote) = 0 => ret'.winner = ""
            /\ NumBallots(vote) > 0 =>
                 /\ ret'.winner \in Range(vote.Options)
                 /\ \A q \in DOMAIN r : r[q] <= r[ret'.winner]]_vars

\* C6 witness: a tally of a vote with two ballots, one option left without any
C6_Witness ==
  /\ ret.op = "GetVoteResults"
  /\ ret.err = ""
  /\ \E o \in DOMAIN ret.results : ret.results[o] = 2
  /\ \E o \in DOMAIN ret.results : ret.results[o] = 0

\* C7: RecordVote with an option that is not in the option list returns the
\* invalid-option error and leaves the whole store as it was.
C7_InvalidOption ==
  [][\A c \in SvcChats, p \in SvcPolls, u \in Users, o \in Dishes :
       (/\ SvcRecordVote(c, p, u, o)
        /\ <<c, p>> \in DOMAIN store.vote
        /\ o \notin Range(store.vote[<<c, p>>].Options)) =>
         (ret'.err = "invalid option" /\ store' = store)]_vars

\* C7 witness: a ballot for an unlisted option was refused on a vote that
\* has options and a ballot
C7_Witness ==
  /\ ret.op = "RecordVote"
  /\ ret.err = "invalid option"
  /\ \E k \in DOMAIN store.vote :
       store.vote[k].Options # <<>> /\ NumBallots(store.vote[k]) > 0

\* C8 (as claimed): CreateVote with an empty option list fails and leaves the
\* store as it was; with options it stores a vote with no ballots and makes
\* it the channel's currentVote.
C8_CreateVoteRejectsEmpty ==
  [][\A c \in SvcChats, p \in SvcPolls, opts \in OptionInputs :
       SvcCreateVote(c, p, opts) =>
         IF opts = <<>> THEN ret'.err # "" /\ store' = store
         ELSE /\ ret'.err = ""
              /\ store'.vote[<<c, p>>].Votes = <<>>
              /\ store'.channel[c].CurrentVote = <<store'.vote[<<c, p>>]>>]_vars

\* C9: after a successful EndVote the vote has a non-zero endedAt and the
\* given winner; the channel's currentVote is cleared when it is this poll
\* and kept when it is another poll; currentDinner is kept.
C9_EndVoteFrame ==
  [][\A c \in SvcChats, p \in SvcPolls, w \in Dishes \cup {""} :
       (SvcEndVote(c, p, w) /\ ret'.err = "") =>
         LET old == store.channel[c]
             new == store'.channel[c]
         IN /\ store'.vote[<<c, p>>].EndedAt # NoTime
            /\ store'.vote[<<c, p>>].WinningDish = w
            /\ new.CurrentVote =
                 (IF old.CurrentVote # <<>> /\ old.CurrentVote[1].PollID = p
                  THEN <<>> ELSE old.CurrentVote)
            /\ new.CurrentDinner = old.CurrentDinner]_vars

\* C9 witness: an EndVote succeeded and left the channel with the other
\* poll as its current vote and with its current dinner
C9_Witness ==
  /\ ret.op = "EndVote"
  /\ ret.err = ""
  /\ \E c \in DOMAIN store.channel :
       /\ store.channel[c].CurrentVote # <<>>
       /\ store.channel[c].CurrentDinner # <<>>
       /\ \E k \in DOMAIN store.vote : k[1] = c /\ store.vote[k].EndedAt # NoTime

\* the number of times x occurs in the sequence q
Occurrences(q, x) == Cardinality({i \in 1..Len(q) : q[i] = x})

\* C11 (as claimed): on a vote with at least one ballot AddCookVolunteer
\* fails and adds nobody for every user whose ballot is not the winning
\* option, users without a ballot included; on a vote without ballots it
\* succeeds for any user.
C11_VolunteerEligibility ==
  [][\A c \in SvcChats, p \in SvcPolls, u \in Users :
       (SvcAddCookVolunteer(c, p, u) /\ <<c, p>> \in DOMAIN store.vote) =>
         LET vote == store.vote[<<c, p>>] IN
           /\ (/\ NumBallots(vote) > 0
               /\ (u \notin DOMAIN vote.Votes \/ vote.Votes[u] # vote.WinningDish)) =>
                (ret'.err # "" /\ store' = store)
           /\ NumBallots(vote) = 0 =>
                (ret'.err = "" /\ u \in Range(store'.vote[<<c, p>>].CookVolunteers))]_vars

\* C12: a successful AddCookVolunteer leaves the user in cookVolunteers
\* exactly once, changes nothing when the user was there already, and the
\* same call made again succeeds and leaves the state as it is.
C12_VolunteerIdempotent ==
  [][\A c \in SvcChats, p \in SvcPolls, u \in Users :
       (SvcAddCookVolunteer(c, p, u) /\ ret'.err = "") =>
         /\ Occurrences(store'.vote[<<c, p>>].CookVolunteers, u) = 1
         /\ u \in Range(store.vote[<<c, p>>].CookVolunteers) => store' = store
         /\ AddCookVolunteer(store', c, p, u) = [store |-> store', err |-> ""]]_vars

\* C12 witness: u1 volunteered, then u2, then u1 again, successfully
C12_Witness ==
  /\ ret.op = "AddCookVolunteer"
  /\ ret.err = ""
  /\ ret.user = "u1"
  /\ \E k \in DOMAIN store.vote : store.vote[k].CookVolunteers = <<"u1", "u2">>

\* C13: after every step the selectedCook of every vote is unset or one of
\* the vote's cookVolunteers, and SelectCook for a user who is not a
\* volunteer returns the not-a-volunteer error and changes nothing.
C13_SelectedCookIsVolunteer ==
  [][/\ \A k \in DOMAIN store'.vote :
          \/ store'.vote[k].SelectedCook = ""
          \/ store'.vote[k].SelectedCook \in Range(store'.vote[k].CookVolunteers)
     /\ \A c \in SvcChats, p \in SvcPolls, u \in Users :
          (/\ SvcSelectCook(c, p, u)
           /\ <<c, p>> \in DOMAIN store.vote
           /\ u \notin Range(store.vote[<<c, p>>].CookVolunteers)) =>
            (ret'.err = "user is not a volunteer" /\ store' = store)]_vars

\* C13 witness: a volunteer was selected as the cook of a vote that has
\* another volunteer too
C13_Witness ==
  /\ ret.op = "SelectCook"
  /\ ret.err = ""
  /\ \E k \in DOMAIN store.vote :
       /\ store.vote[k].SelectedCook # ""
       /\ Len(store.vote[k].CookVolunteers) = 2

\* q is a duplicate-free sequence
DuplicateFree(q) == \A i, j \in 1..Len(q) : q[i] = q[j] => i = j

\* q starts with the whole of r
StartsWith(q, r) == Len(r) <= Len(q) /\ \A i \in 1..Len(r) : q[i] = r[i]

C29_EndedVoteImmutable ==
  [][\A k \in DOMAIN store.vote :
       (/\ store.vote[k].EndedAt # NoTime
        /\ \A opts \in OptionInputs : ~SvcCreateVote(k[1], k[2], opts)) =>
         /\ k \in DOMAIN store'.vote
         /\ store'.vote[k].Options = store.vote[k].Options
         /\ store'.vote[k].Votes = store.vote[k].Votes]_vars

\* C19 (as claimed): FinishDinner on a channel without a current dinner
\* fails with "no active dinner" and changes nothing.
C19_FinishNoActiveDinner ==
  [][\A c \in SvcChats :
       (/\ SvcFinishDinner(c)
        /\ (c \notin DOMAIN store.channel \/ store.channel[c].CurrentDinner = <<>>)) =>
         (ret'.err = "no active dinner" /\ store' = store)]_vars

\* C19 (amended): FinishDinner changes nothing and fails with the store's
\* "key not found" when the channel has no state, and with "no active
\* dinner" when its state holds no current dinner; otherwise it stores the
\* current dinner with FinishedAt set under its ID, adds and drops no dinner
\* record, clears CurrentDinner, and a second FinishDinner fails with "no
\* active dinner".
C19_Finish ==
  [][\A c \in SvcChats :
       SvcFinishDinner(c) =>
         IF c \notin DOMAIN store.channel
         THEN ret'.err = "key not found" /\ store' = store
         ELSE IF store.channel[c].CurrentDinner = <<>>
         THEN ret'.err = "no active dinner" /\ store' = store
         ELSE LET dinner == store.channel[c].CurrentDinner[1] IN
                /\ ret'.err = ""
                /\ DOMAIN store'.dinner = DOMAIN store.dinner
                /\ store'.dinner[dinner.ID] = [dinner EXCEPT !.FinishedAt = now]
                /\ store'.dinner[dinner.ID].FinishedAt # NoTime
                /\ store'.channel[c].CurrentDinner = <<>>
                /\ FinishDinner(store', c, now') =
                     [store |-> store', err |-> "no active dinner"]]_vars

\* C19 witness: a dinner was finished: its record is stored with FinishedAt
\* set and the channel has no current dinner
C19_Witness ==
  /\ ret.op = "FinishDinner"
  /\ ret.err = ""
  /\ \E c \in DOMAIN store.channel : store.channel[c].CurrentDinner = <<>>
  /\ \E d \in DOMAIN store.dinner : store.dinner[d].FinishedAt # NoTime

\* C20 (as claimed): CreateDinner on a channel whose current dinner is
\* unfinished fails and changes nothing.
C20_CreateRejectsActiveDinner ==
  [][\A c \in SvcChats, cook \in Users :
       (/\ SvcCreateDinner(c, "A", cook)
        /\ c \in DOMAIN store.channel
        /\ store.channel[c].CurrentDinner # <<>>
        /\ store.channel[c].CurrentDinner[1].FinishedAt = NoTime) =>
         (ret'.err # "" /\ store' = store)]_vars

\* the least index at which o stands in the list q
IndexOf(q, o) == CHOOSE i \in 1..Len(q) : q[i] = o /\ \A j \in 1..(i - 1) : q[j] # o

\* C31 (as claimed): the winner GetVoteResults returns for a vote with
\* ballots is, among the options with the greatest count, the one that
\* stands first in the option list.
C31_TieByDeclaredOrder ==
  [][\A c \in SvcChats, p \in SvcPolls :
       (/\ SvcGetVoteResults(c, p)
        /\ ret'.err = ""
        /\ NumBallots(store.vote[<<c, p>>]) > 0) =>
         LET vote == store.vote[<<c, p>>]
             r == ret'.results
             top == {o \in Range(vote.Options) : \A q \in DOMAIN r : r[q] <= r[o]}
         IN /\ ret'.winner \in top
            /\ \A o \in top : IndexOf(vote.Options, ret'.winner) <= IndexOf(vote.Options, o)]_vars

\* C34 (as claimed): the vote held in a channel's CurrentVote equals the
\* vote stored under the key of that poll.
C34_CurrentVoteIsStoredVote ==
  \A c \in DOMAIN store.channel :
    store.channel[c].CurrentVote # <<>> =>
      LET k == <<c, store.channel[c].CurrentVote[1].PollID>> IN
        k \in DOMAIN store.vote /\ store.channel[c].CurrentVote[1] = store.vote[k]

\* C38 (as claimed): a vote that has not ended has no cook volunteers.
C38_NoVolunteersBeforeEnd ==
  \A k \in DOMAIN store.vote :
    store.vote[k].EndedAt = NoTime => store.vote[k].CookVolunteers = <<>>

\* C40 (as claimed): when CheckVoteThreshold reports that the threshold is
\* reached, the winner it returns is not empty and is one of the vote's
\* options.
C40_QuorumWinnerIsOption ==
  [][\A c \in SvcChats, p \in SvcPolls, m \in 0..MaxMembers, pct \in Fractions :
       (/\ SvcCheckVoteThreshold(c, p, m, pct)
        /\ ret'.err = ""
        /\ ret'.reached) =>
         /\ ret'.winner # ""
         /\ ret'.winner \in Range(store.vote[<<c, p>>].Options)]_vars

\* C30 (as claimed): every dinner record that is not finished is the record
\* the CurrentDinner of its channel refers to.
C30_UnfinishedIsCurrent ==
  \A k \in DOMAIN store.dinner :
    store.dinner[k].FinishedAt = NoTime =>
      LET c == store.dinner[k].ChannelID IN
        /\ c \in DOMAIN store.channel
        /\ store.channel[c].CurrentDinner # <<>>
        /\ store.channel[c].CurrentDinner[1].ID = k

\* --------------------------------------------------- claims on SpecRace
\* C35 (as claimed): no step takes a vote whose EndedAt is set to a vote
\* whose EndedAt is zero.
C35_EndedStaysEnded ==
  [][\A k \in DOMAIN store.vote :
       store.vote[k].EndedAt # NoTime =>
         (k \in DOMAIN store'.vote /\ store'.vote[k].EndedAt # NoTime)]_vars

\* C36 (as claimed): while the last call the update loop made is a RecordVote
\* that returned nil, the ballot it recorded is in the vote.
C36_BallotStays ==
  (/\ txn["bot"].pc = "idle"
   /\ txn["bot"].op = "RecordVote"
   /\ txn["bot"].err = "") =>
    /\ txn["bot"].u \in DOMAIN store.vote[RaceKey].Votes
    /\ store.vote[RaceKey].Votes[txn["bot"].u] = txn["bot"].o

\* C37: every ballot of every vote names an option of that vote's option
\* list, whatever calls overlap.
C37_BallotsNameOptions ==
  \A k \in DOMAIN store.vote :
    \A u \in DOMAIN store.vote[k].Votes :
      store.vote[k].Votes[u] \in Range(store.vote[k].Options)

\* C37 witness: the vote holds a ballot for the added option C while the
\* closer's EndVote is about to store the copy it read before C was added
C37_Witness ==
  /\ "C" \in Range(store.vote[RaceKey].Votes)
  /\ txn["closer"].pc = "set"
  /\ txn["closer"].vote[1].Options = <<"A", "B">>

\* -------------------------------------------------- claims on SpecReady
\* C39 (as claimed): when the cook of dinner d presses its dinner_ready
\* button and the handler succeeds, d is finished and every other dinner
\* record is as it was.
C39_ReadyFinishesItsDinner ==
  [][\A d \in DinnerIDs, u \in Users :
       (DinnerReadyCallback(d, u) /\ ret'.err = "") =>
         /\ store'.dinner[d].FinishedAt # NoTime
         /\ \A e \in DOMAIN store.dinner \ {d} : store'.dinner[e] = store.dinner[e]]_vars

\* ------------------------------------------------ claims on SpecTenants
\* what the store holds of channel c: its channel state, its vote records
\* and its dinner records
ChannelView(s, c) ==
  [channel |-> IF c \in DOMAIN s.channel THEN <<s.channel[c]>> ELSE <<>>,
   vote    |-> [k \in {x \in DOMAIN s.vote : x[1] = c} |-> s.vote[k]],
   dinner  |-> [k \in {x \in DOMAIN s.dinner : x[1] = c} |-> s.dinner[k]]]

\* the step is a service call for channel c
CallFor(c) ==
  \/ SvcCreateVote(c, 1, <<"A", "B">>)
  \/ SvcRecordVote(c, 1, "u1", "A")
  \/ SvcEndVote(c, 1, "A")
  \/ SvcAddCookVolunteer(c, 1, "u1")
  \/ SvcSelectCook(c, 1, "u1")
  \/ SvcAddOptionToVote(c, 1, "C")
  \/ SvcCreateDinner(c, "A", "u1")
  \/ SvcFinishDinner(c)

\* the step is the starter's or the closer's work on channel c
SchedulerStepFor(c) ==
  \/ StarterStart /\ starter.c = c
  \/ CloserEndVote /\ closer.c = c
  \/ CloserFinishDinner /\ closer.c = c

\* C26: a service call for channel a, and a step the starter or the closer
\* takes for channel a, leaves the channel state, the vote records and the
\* dinner records of every other channel as they were.
C26_ChannelsIsolated ==
  [][\A a \in TenantChats : \A b \in TenantChats \ {a} :
       (CallFor(a) \/ SchedulerStepFor(a)) => ChannelView(store', b) = ChannelView(store, b)]_vars

\* C26 witness: both channels hold a vote with poll ID 1; the vote of
\* channel 1 has ended by a call and that of channel 2 is current
C26_Witness ==
  /\ ret.op = "EndVote"
  /\ ret.err = ""
  /\ <<1, 1>> \in DOMAIN store.vote
  /\ store.vote[<<1, 1>>].EndedAt # NoTime
  /\ 2 \in DOMAIN store.channel
  /\ store.channel[2].CurrentVote # <<>>
  /\ store.channel[2].CurrentVote[1].PollID = 1

\* C32 (as claimed): when the closer ends a vote it announces a winning dish
\* only if the vote holds a ballot, and then a dish with the greatest count;
\* for a vote without a ballot it announces that nobody voted.
C32_CloserAnnouncement ==
  [][(CloserEndVote /\ <<closer.c, closer.p>> \in DOMAIN store.vote) =>
       LET vote == store.vote[<<closer.c, closer.p>>] IN
         /\ NumBallots(vote) = 0 => sent'.text = "nobody"
         /\ sent'.text = "winner" =>
              /\ NumBallots(vote) > 0
              /\ sent'.dish \in Range(vote.Options)]_vars

\* no handler and no scheduler task is in the middle of its work
Quiet ==
  /\ bot.pc = "idle"
  /\ \A t \in Tasks : TaskOf(t).pc = "idle"

\* C33 (as claimed): when nothing is in progress, the CurrentVote of every
\* channel refers to a stored vote that has not ended.
C33_CurrentVoteUnended ==
  Quiet =>
    \A c \in DOMAIN store.channel :
      store.channel[c].CurrentVote # <<>> =>
        LET k == <<c, store.channel[c].CurrentVote[1].PollID>> IN
          k \in DOMAIN store.vote /\ store.vote[k].EndedAt = NoTime

\* --------------------------------------------------- claims on SpecStop
\* C28: a task has returned only when the stop channel is closed, and once
\* the channel is closed every task eventually returns.
C28_StopTerminates ==
  /\ [](\A t \in Tasks : TaskOf(t).pc = "done" => stopChan = "closed")
  /\ (stopChan = "closed") ~> (\A t \in Tasks : TaskOf(t).pc = "done")

\* C28 witness: the tickers fired, Stop was called, the three tasks returned
C28_Witness ==
  /\ now > boot
  /\ stopChan = "closed"
  /\ \A t \in Tasks : TaskOf(t).pc = "done"

\* ------------------------------------------------- claims on SpecFaults
\* C27 (as claimed): when a store operation fails in the starter's loop body
\* for a channel, the starter does not start the workflow for that channel
\* and goes on with the channels that are left.
C27_FaultSkipsChannel ==
  [][\A f \in StoreFaults :
       StarterScanFault(f) =>
         /\ starter'.pc # "start"
         /\ starter'.queue = Tail(starter.queue)
         /\ starter.queue # <<>> /\ Tail(starter.queue) # <<>> => starter'.pc = "scan"]_vars

\* ------------------------------------------------ claims on SpecSession
\* C23: SetState stores the mode with the time of the call; a GetState that
\* finds a state returns its mode when at most the idle window has passed
\* since that time, and otherwise removes the chat's entry and returns
\* "normal".
C23_ModeExpires ==
  [][/\ \A i \in Callers, c \in SessionChats, mode \in Modes :
          SetState(i, c, mode) =>
            (states'[c].State = mode /\ states'[c].Timestamp = now)
     /\ \A i \in Callers :
          (GetRead(i) /\ callers[i].op = "GetState" /\ callers[i].c \in DOMAIN states) =>
            LET cs == states[callers[i].c] IN
              IF now > cs.Timestamp + IdleWindow
              THEN callers'[i].pc = "evict"
              ELSE callers'[i].pc = "return" /\ callers'[i].out = cs.State
     /\ \A i \in Callers : GetEvict(i) => callers[i].c \notin DOMAIN states'
     /\ \A i \in Callers :
          (GetReturn(i) /\ callers[i].op = "GetState" /\ callers[i].evicted) =>
            callers'[i].out = "normal"]_vars

\* C23 witness: a GetState found the chat's state too old, removed it and
\* returned "normal"
C23_Witness ==
  \E i \in Callers :
    /\ callers[i].pc = "idle"
    /\ callers[i].op = "GetState"
    /\ callers[i].evicted
    /\ callers[i].out = "normal"
    /\ callers[i].c \notin DOMAIN states

\* C24 (as claimed): a write to a chat whose state is older than the idle
\* window leaves nothing of that state: SetState leaves no data, SetData
\* leaves the mode "normal" and the one key it wrote, ClearData leaves no
\* state or an empty one.
C24_WritesDropExpired ==
  [][\A i \in Callers, c \in SessionChats :
       (c \in DOMAIN states /\ Expired(states[c], now)) =>
         /\ \A mode \in Modes : SetState(i, c, mode) => states'[c].Data = <<>>
         /\ \A k \in DataKeys, v \in DataValues :
              SetData(i, c, k, v) =>
                (states'[c].State = "normal" /\ states'[c].Data = Put(<<>>, k, v))
         /\ \A k \in DataKeys :
              ClearData(i, c, k) =>
                \/ c \notin DOMAIN states'
                \/ (states'[c].State = "normal" /\ states'[c].Data = <<>>)]_vars

\* C25 (as claimed): the eviction of GetState and GetData does not delete a
\* state that is not older than the idle window, and no goroutine releases
\* the lock more often than it took it.
C25_EvictionKeepsFreshState ==
  [][/\ \A i \in Callers :
          (/\ GetEvict(i)
           /\ callers[i].c \in DOMAIN states
           /\ ~Expired(states[callers[i].c], now)) =>
            (/\ callers[i].c \in DOMAIN states'
             /\ states'[callers[i].c] = states[callers[i].c])
     /\ mu' >= 0
     /\ \A i \in Callers : callers'[i].held >= 0]_vars

\* --------------------------------------------------- claims on SpecRate
\* C21: after a successful RateDinner the user holds the rating given, the
\* other users hold the ratings they held, and AverageRating times the
\* number of raters is the sum of the ratings.
C21_AverageIsMean ==
  [][\A d \in DinnerIDs, u \in Users, rating \in RatingInputs :
       (SvcRateDinner(d, u, rating) /\ ret'.err = "") =>
         LET old == store.dinner[d].Ratings
             new == store'.dinner[d].Ratings
             avg == store'.dinner[d].AverageRating
         IN /\ DOMAIN new = DOMAIN old \cup {u}
            /\ new[u] = rating
            /\ \A v \in DOMAIN old \ {u} : new[v] = old[v]
            /\ avg[2] > 0
            /\ avg[1] * Cardinality(DOMAIN new) = SumOver(new, DOMAIN new) * avg[2]]_vars

\* C21 witness: u1, who had rated before, rated 2 beside the 5 of u2: the
\* average is 3.5
C21_Witness ==
  /\ ret.op = "RateDinner"
  /\ ret.err = ""
  /\ ret.user = "u1"
  /\ ret.again
  /\ \E d \in DOMAIN store.dinner :
       /\ DOMAIN store.dinner[d].Ratings = {"u1", "u2"}
       /\ store.dinner[d].Ratings["u1"] = 2
       /\ store.dinner[d].Ratings["u2"] = 5
       /\ store.dinner[d].AverageRating = <<7, 2>>

\* C22 (as claimed): RateDinner with a rating outside 1..5 fails and changes
\* nothing, and every stored rating is in 1..5.
C22_RatingInRange ==
  [][/\ \A d \in DinnerIDs, u \in Users, rating \in RatingInputs :
          (SvcRateDinner(d, u, rating) /\ rating \notin 1..5) =>
            (ret'.err # "" /\ store' = store)
     /\ \A d \in DOMAIN store'.dinner : \A u \in DOMAIN store'.dinner[d].Ratings :
          store'.dinner[d].Ratings[u] \in 1..5]_vars

\* ------------------------------------------------ claims on SpecResolve
\* C15: FindChannelByPollID returns the channel a vote with that poll id was
\* created in, with the poll_mapping key or without it, and fails when no
\* channel has a vote with that poll id.
C15_ResolveReturnsChannel ==
  [][\A p \in PollIds :
       ResFind(p) =>
         IF \E c \in ResolveChats : <<c, p>> \in DOMAIN store.vote
         THEN ret'.err = "" /\ <<ret'.channel, p>> \in DOMAIN store.vote
         ELSE ret'.err = "channel not found"]_vars

\* C15 witness: a lookup without the poll_mapping key returned chat 2, whose
\* vote with that poll id has ended
C15_Witness ==
  /\ ret.op = "FindChannelByPollID"
  /\ ret.err = ""
  /\ ~ret.mapped
  /\ ret.channel = 2
  /\ <<2, ret.poll>> \in DOMAIN store.vote
  /\ store.vote[<<2, ret.poll>>].EndedAt # NoTime

\* C16 (as claimed): after a lookup that succeeded without the poll_mapping
\* key, the key exists and holds the returned channel.
C16_ScanSelfHeals ==
  [][\A p \in PollIds :
       (ResFind(p) /\ p \notin DOMAIN store.pollMapping /\ ret'.err = "") =>
         (p \in DOMAIN store'.pollMapping /\ store'.pollMapping[p] = ret'.channel)]_vars

\* ------------------------------------ claims on Spec and SpecBallot
\* the un-ended votes of a channel
ActiveVotes(c) == {k \in DOMAIN store.vote : k[1] = c /\ store.vote[k].EndedAt = NoTime}

\* C2 (as claimed): in every reachable state a channel has at most one
\* active (un-ended) vote.
C2_OneActiveVote == \A c \in Chats : Cardinality(ActiveVotes(c)) <= 1

\* C3: in the ballot-delivery path the check after a recorded ballot decides
\* to end the vote exactly when the vote has not ended and the ballots
\* number at least ceil(memberCount * 2/3) (3 * ballots >= 2 * memberCount),
\* with an option of the greatest count as the winner; the EndVote that
\* follows stores that winner and the end time, and is never made on fewer
\* ballots.
C3_EndsAtQuorum ==
  [][/\ (bot.pc = "threshold" /\ bot' # bot) =>
          LET vote == store.vote[<<bot.c, bot.p>>] IN
            /\ (bot'.pc = "endVote") <=>
                 (vote.EndedAt = NoTime /\ 3 * NumBallots(vote) >= 2 * bot.m)
            /\ (bot'.pc = "endVote") =>
                 /\ bot'.w \in Range(vote.Options)
                 /\ \A o \in Range(vote.Options) :
                      Results(vote)[o] <= Results(vote)[bot'.w]
     /\ (bot.pc = "endVote" /\ bot' # bot) =>
          LET vote == store'.vote[<<bot.c, bot.p>>] IN
            /\ vote.EndedAt = now
            /\ vote.WinningDish = bot.w
            /\ 3 * NumBallots(vote) >= 2 * bot.m]_vars

\* C3 witness: with a member count of 3 the ballots u1 -> A and u2 -> A have
\* ended the vote with winner A, and the volunteer button is posted
C3_Witness ==
  \E k \in DOMAIN store.vote :
    /\ store.vote[k].Votes = [u \in {"u1", "u2"} |-> "A"]
    /\ store.vote[k].EndedAt # NoTime
    /\ store.vote[k].WinningDish = "A"
    /\ store.channel[k[1]].MemberCount = 3
    /\ k \in buttons
    /\ bot.pc = "idle"

\* C10 (as claimed): endedAt and the winning option of a vote are set once:
\* no step changes either of them on a vote that has ended.
C10_WinnerSetOnce ==
  [][\A k \in DOMAIN store.vote :
       store.vote[k].EndedAt # NoTime =>
         /\ store'.vote[k].EndedAt = store.vote[k].EndedAt
         /\ store'.vote[k].WinningDish = store.vote[k].WinningDish]_vars

\* C18 (as claimed): when the closer is through with a channel it found
\* with an unfinished vote or dinner, the vote it ended is stored as ended,
\* every dinner record of the channel's current dinner is finished, and the
\* channel has neither a current vote nor a current dinner.
C18_CloserLeavesIdle ==
  [][/\ CloserEndVote => store'.vote[<<closer.c, closer.p>>].EndedAt # NoTime
     /\ ((CloserEndVote /\ ~closer.dinner) \/ CloserFinishDinner) =>
          LET c == closer.c IN
            /\ store'.channel[c].CurrentVote = <<>>
            /\ store'.channel[c].CurrentDinner = <<>>
            /\ \A d \in DOMAIN store'.dinner :
                 d[1] = c => store'.dinner[d].FinishedAt # NoTime]_vars

\* ------------------------------------------------ claims on SpecStarter
\* the records of channel c in the namespace f that started on the day of t
StartedOnDayOf(f, c, t) ==
  {k \in DOMAIN f : k[1] = c /\ Today(f[k].StartedAt) = Today(t)}

\* C17: when the starter decides to start the workflow for a channel, the
\* channel has no current vote, no current dinner and no vote or dinner
\* record that started on the current day; and a vote the starter stores is
\* for that channel, on a day on which the starter has stored no vote for
\* it yet.
C17_StartsOncePerDay ==
  [][/\ (StarterScan /\ starter'.pc = "start") =>
          LET c == starter'.c IN
            /\ store.channel[c].CurrentVote = <<>>
            /\ store.channel[c].CurrentDinner = <<>>
            /\ StartedOnDayOf(store.vote, c, now) = {}
            /\ StartedOnDayOf(store.dinner, c, now) = {}
     /\ StarterStart =>
          \A k \in DOMAIN store'.vote \ DOMAIN store.vote :
            /\ k[1] = starter.c
            /\ StartedOnDayOf(store.vote, k[1], now) \cap StarterCreated = {}]_vars

\* C17 witness: the starter stored a vote in an earlier minute of this day,
\* has handled the tick of the current minute, and has stored one vote
C17_Witness ==
  /\ starter.pc = "idle"
  /\ "starter" \notin pending
  /\ InStartWindow(now)
  /\ Cardinality(StarterCreated) = 1
  /\ \E k \in StarterCreated :
       /\ store.vote[k].StartedAt < now
       /\ Today(store.vote[k].StartedAt) = Today(now)

\* ---------------------------------------------- claims on SpecWatch
\* C1 (as claimed): when a vote has ended with a winner, has no volunteer,
\* and the watchdog has handled every tick of more than GracePeriod minutes
\* since (its first scan comes at most a minute after the end), the
\* channel's current vote is not that vote any more and a vote started
\* after the end exists for the channel.
C1_WatchdogRestarts ==
  \A k \in DOMAIN store.vote :
    LET v == store.vote[k] IN
      (/\ v.EndedAt # NoTime
       /\ v.WinningDish # ""
       /\ v.CookVolunteers = <<>>
       /\ now - v.EndedAt > GracePeriod + 1
       /\ watchdog.pc = "idle"
       /\ "watchdog" \notin pending) =>
        /\ \A x \in Range(store.channel[k[1]].CurrentVote) : x.PollID # k[2]
        /\ \E q \in DOMAIN store.vote :
             q[1] = k[1] /\ store.vote[q].StartedAt > v.EndedAt

====
